---- MODULE Spec2Model ----
(***************************************************************************)
(* MindScanAI: the scoring and classification engine                       *)
(* (diagnostic/analysis_engine.py), the assessment tools' crisis check     *)
(* (diagnostic/assessment_tools.py) and the crisis assessment              *)
(* (crisis/intervention.py), as state machines over a response set.        *)
(***************************************************************************)
EXTENDS Integers, Sequences, FiniteSets, TLC

VARIABLES assessment_type, responses, edits, analysis_result,
          tools_result, crisis_assessment, crisis_records, crisis_alerts,
          user_row, now, earlier_result, audit_log,
          data, encrypted, decrypted, encrypted_pii, decrypted_pii,
          signature, verified,
          consent_given, age_verified, consent_id, rendered, minor_consent,
          age_form, assessment_started, selected_assessment,
          session_responses, assessment_results,
          consent_records, assessments, diagnostic_reports, storage_result,
          messages, tried, api_response

\* the state of the engine, the crisis assessment and the storage
engine_vars == <<assessment_type, responses, edits, analysis_result,
                 tools_result, crisis_assessment, crisis_records, crisis_alerts,
                 user_row, now, earlier_result, audit_log>>

\* the state of one use of the EncryptionManager
security_vars == <<data, encrypted, decrypted, encrypted_pii, decrypted_pii,
                   signature, verified>>

\* st.session_state of one browser session of app.py
session_vars == <<consent_given, age_verified, consent_id, rendered, minor_consent,
                  age_form, assessment_started, selected_assessment,
                  session_responses, assessment_results>>

\* the tables of SecureStorage that hold no crisis record
storage_vars == <<consent_records, assessments, diagnostic_reports, storage_result>>

\* one call of Phi3Integration._make_api_request
phi3_vars == <<messages, tried, api_response>>

\* the state the engine and the crisis assessment do not touch
other_vars == <<security_vars, session_vars, storage_vars, phi3_vars>>

vars == <<engine_vars, other_vars>>

(***************************************************************************)
(* Bounds of the model.                                                    *)
(***************************************************************************)
\* answers changed after the starting response set, engine specification
MaxEdits == 1
\* how far below 0 a numeric answer may lie
OutOfScale == 1
\* largest numeric answer tried for an ordinary item
MaxAnswer == 5
\* largest numeric answer tried for hours_sleep and time_in_bed
MaxHours == 8
\* answers changed after the starting response set, crisis specification
MaxCrisisEdits == 2
\* crisis assessments that may be stored
MaxRecords == 2
\* answers changed after the starting response set, calls specification
MaxCallEdits == 1
\* largest number of options selected in a list answer
MaxSelected == 2
\* latest reading of the clock
MaxTime == 1
\* assessments started in one session of the application
MaxAssessments == 1
\* widgets moved in the questionnaires of one session
MaxAppEdits == 4
\* operations of the storage that are called
MaxStorageCalls == 4

(***************************************************************************)
(* Raw answers: a number, a string or a list of selected options.          *)
(***************************************************************************)
Num(n) == [kind |-> "num", n |-> n, s |-> ""]

Str(s) == [kind |-> "str", n |-> 0, s |-> s]

List(n) == [kind |-> "list", n |-> n, s |-> ""]

\* the value of "no result yet"
None == [kind |-> "none"]

\* dict.get(key, default)
Get(d, key, default) == IF key \in DOMAIN d THEN d[key] ELSE default

\* d with d[key] = value (dict item assignment)
Put(d, key, value) == [k \in (DOMAIN d) \cup {key} |-> IF k = key THEN value ELSE d[k]]

\* d without the keys of S
Without(d, S) == [k \in (DOMAIN d) \ S |-> d[k]]

Min(a, b) == IF a <= b THEN a ELSE b

Range(f) == {f[i] : i \in DOMAIN f}

(***************************************************************************)
(* CodeBasedAnalysisEngine: configuration tables.                          *)
(***************************************************************************)
Instruments == {"Depression Screening", "Anxiety Disorders Screening",
                "Stress & Trauma Assessment", "Sleep Disorders Screening",
                "General Mental Health Screening"}

NoComponents == [c \in {} |-> 0]

Direct(q) == [scoring |-> "direct", question |-> q, questions |-> <<>>]

Component(method, qs) == [scoring |-> method, question |-> "", questions |-> qs]

PSQIComponentOrder == <<"sleep_quality", "sleep_latency", "sleep_duration",
                        "sleep_efficiency", "sleep_disturbances",
                        "sleep_medication", "daytime_dysfunction">>

PSQIComponents ==
  [c \in Range(PSQIComponentOrder) |->
     CASE c = "sleep_quality" -> Direct("sleep_quality")
       [] c = "sleep_latency" ->
            Component("component", <<"sleep_latency_minutes", "sleep_latency_difficulty">>)
       [] c = "sleep_duration" ->
            [scoring |-> "duration_bands", question |-> "hours_sleep", questions |-> <<>>]
       [] c = "sleep_efficiency" ->
            Component("efficiency_calc", <<"hours_sleep", "time_in_bed">>)
       [] c = "sleep_disturbances" ->
            Component("disturbance_sum",
                      <<"wake_middle", "bathroom", "breathe", "cough_snore", "cold",
                        "hot", "bad_dreams", "pain", "other_disturb">>)
       [] c = "sleep_medication" -> Direct("sleep_medication")
       [] c = "daytime_dysfunction" ->
            Component("component", <<"trouble_staying_awake", "enthusiasm_problems">>)]

Cut(name, lo, hi) == [name |-> name, lo |-> lo, hi |-> hi]

PHQ9Config ==
  [algorithm |-> "PHQ-9",
   questions |-> <<"little_interest", "feeling_down", "sleep_problems",
                   "tired_little_energy", "poor_appetite", "feeling_bad",
                   "trouble_concentrating", "moving_slowly", "suicidal_thoughts">>,
   reverse_score |-> {},
   domains |-> [d \in {"mood", "neurovegetative", "cognitive", "psychomotor", "suicidality"} |->
      CASE d = "mood" -> <<"little_interest", "feeling_down">>
        [] d = "neurovegetative" -> <<"sleep_problems", "tired_little_energy", "poor_appetite">>
        [] d = "cognitive" -> <<"feeling_bad", "trouble_concentrating">>
        [] d = "psychomotor" -> <<"moving_slowly">>
        [] d = "suicidality" -> <<"suicidal_thoughts">>],
   components |-> NoComponents,
   max_score |-> 27,
   cutoffs |-> <<Cut("minimal", 0, 4), Cut("mild", 5, 9), Cut("moderate", 10, 14),
                 Cut("moderately_severe", 15, 19), Cut("severe", 20, 27)>>]

GAD7Config ==
  [algorithm |-> "GAD-7",
   questions |-> <<"feeling_nervous", "not_stop_worrying", "worrying_different_things",
                   "trouble_relaxing", "restless_hard_still", "easily_annoyed",
                   "afraid_awful_happen">>,
   reverse_score |-> {},
   domains |-> [d \in {"worry", "physical_tension", "irritability", "apprehension"} |->
      CASE d = "worry" -> <<"feeling_nervous", "not_stop_worrying", "worrying_different_things">>
        [] d = "physical_tension" -> <<"trouble_relaxing", "restless_hard_still">>
        [] d = "irritability" -> <<"easily_annoyed">>
        [] d = "apprehension" -> <<"afraid_awful_happen">>],
   components |-> NoComponents,
   max_score |-> 21,
   cutoffs |-> <<Cut("minimal", 0, 4), Cut("mild", 5, 9), Cut("moderate", 10, 14),
                 Cut("severe", 15, 21)>>]

PSS10Config ==
  [algorithm |-> "PSS-10",
   questions |-> <<"upset_unexpected", "unable_control", "nervous_stressed",
                   "confident_personal", "things_going_way", "could_not_cope",
                   "control_irritations", "on_top_things", "angered_outside_control",
                   "difficulties_piling">>,
   reverse_score |-> {"confident_personal", "things_going_way", "control_irritations",
                      "on_top_things"},
   domains |-> [d \in {"perceived_helplessness", "perceived_self_efficacy", "emotional_distress"} |->
      CASE d = "perceived_helplessness" ->
             <<"upset_unexpected", "unable_control", "could_not_cope", "difficulties_piling">>
        [] d = "perceived_self_efficacy" ->
             <<"confident_personal", "things_going_way", "control_irritations", "on_top_things">>
        [] d = "emotional_distress" -> <<"nervous_stressed", "angered_outside_control">>],
   components |-> NoComponents,
   max_score |-> 40,
   cutoffs |-> <<Cut("minimal", 0, 13), Cut("mild", 14, 19), Cut("moderate", 20, 26),
                 Cut("severe", 27, 40)>>]

PSQIConfig ==
  [algorithm |-> "PSQI",
   questions |-> <<>>,
   reverse_score |-> {},
   domains |-> NoComponents,
   components |-> PSQIComponents,
   max_score |-> 21,
   cutoffs |-> <<Cut("good", 0, 5), Cut("poor", 6, 21)>>]

K10Config ==
  [algorithm |-> "K10",
   questions |-> <<"tired_no_reason", "nervous", "nervous_nothing_calm", "hopeless",
                   "restless_fidgety", "restless_still", "depressed", "everything_effort",
                   "sad_nothing_cheer", "worthless">>,
   reverse_score |-> {},
   domains |-> [d \in {"anxiety", "depression", "fatigue"} |->
      CASE d = "anxiety" -> <<"tired_no_reason", "nervous", "nervous_nothing_calm",
                              "restless_fidgety", "restless_still">>
        [] d = "depression" -> <<"hopeless", "depressed", "sad_nothing_cheer", "worthless">>
        [] d = "fatigue" -> <<"everything_effort">>],
   components |-> NoComponents,
   max_score |-> 50,
   cutoffs |-> <<Cut("likely_well", 10, 15), Cut("likely_mild", 16, 21),
                 Cut("likely_moderate", 22, 29), Cut("likely_severe", 30, 50)>>]

scoring_algorithms ==
  [t \in Instruments |->
     CASE t = "Depression Screening" -> PHQ9Config
       [] t = "Anxiety Disorders Screening" -> GAD7Config
       [] t = "Stress & Trauma Assessment" -> PSS10Config
       [] t = "Sleep Disorders Screening" -> PSQIConfig
       [] t = "General Mental Health Screening" -> K10Config]

\* self.scoring_algorithms.get(assessment_type, {}) of a type that is not
\* configured, with the defaults its readers give to the missing entries
EmptyConfig ==
  [algorithm |-> "",
   questions |-> <<>>,
   reverse_score |-> {},
   domains |-> NoComponents,
   components |-> NoComponents,
   max_score |-> 100,
   cutoffs |-> <<>>]

\* self.scoring_algorithms.get(assessment_type, {})
algorithm_config_of(type) == Get(scoring_algorithms, type, EmptyConfig)

(***************************************************************************)
(* CodeBasedAnalysisEngine: response normalisation.                        *)
(***************************************************************************)
\* str.isdigit() and int(str) on the digit strings the model uses
DigitStrings == [s \in {"0", "1", "2", "3", "4", "5"} |->
                   CASE s = "0" -> 0 [] s = "1" -> 1 [] s = "2" -> 2
                     [] s = "3" -> 3 [] s = "4" -> 4 [] s = "5" -> 5]

\* str.lower() on the mixed-case strings the model uses; any other string
\* of the model is already lower case
LowerCase == [s \in {"Never", "NEVER", "Sometimes", "SOMETIMES", "Often", "OFTEN",
                     "Not at all", "Nearly every day", "Always", "Severe"} |->
                CASE s \in {"Never", "NEVER"} -> "never"
                  [] s \in {"Sometimes", "SOMETIMES"} -> "sometimes"
                  [] s \in {"Often", "OFTEN"} -> "often"
                  [] s = "Not at all" -> "not at all"
                  [] s = "Nearly every day" -> "nearly every day"
                  [] s = "Always" -> "always"
                  [] s = "Severe" -> "severe"]

\* mutant: the lookup is case-sensitive
lower_case_sensitive(s) == s

lower(s) == IF s \in DOMAIN LowerCase THEN LowerCase[s] ELSE s

likert_map ==
  [s \in {"never", "rarely", "sometimes", "often", "always",
          "not at all", "several days", "more than half", "nearly every day",
          "no difficulty", "somewhat difficult", "very difficult", "extremely difficult",
          "very good", "fairly good", "fairly bad", "very bad",
          "none", "mild", "moderate", "severe", "extreme"} |->
     CASE s \in {"never", "not at all", "no difficulty", "very good", "none"} -> 0
       [] s \in {"rarely", "several days", "somewhat difficult", "fairly good", "mild"} -> 1
       [] s \in {"sometimes", "more than half", "very difficult", "fairly bad", "moderate"} -> 2
       [] s \in {"often", "nearly every day", "extremely difficult", "very bad", "severe"} -> 3
       [] s \in {"always", "extreme"} -> 4]

extract_response_value(response) ==
  IF response.kind = "num" THEN response.n
  ELSE IF response.kind = "str"
       THEN IF response.s \in DOMAIN DigitStrings THEN DigitStrings[response.s]
            ELSE Get(likert_map, lower(response.s), 0)
       ELSE 0

\* _extract_response_value(responses.get(q, default))
Value(resp, q, default) == extract_response_value(Get(resp, q, Num(default)))

RECURSIVE SumValues(_, _)
\* sum(_extract_response_value(responses.get(q, 0)) for q in qs)
SumValues(resp, qs) ==
  IF qs = <<>> THEN 0 ELSE Value(resp, Head(qs), 0) + SumValues(resp, Tail(qs))

(***************************************************************************)
(* CodeBasedAnalysisEngine: scoring.                                       *)
(***************************************************************************)
\* mutant: the total is capped at the GAD-7 maximum
calculate_phq9_scores_cap21(resp, config) ==
  [total_score |-> Min(SumValues(resp, config.questions), 21),
   domain_scores |-> [d \in DOMAIN config.domains |-> SumValues(resp, config.domains[d])]]

calculate_phq9_scores(resp, config) ==
  [total_score |-> Min(SumValues(resp, config.questions), 27),
   domain_scores |-> [d \in DOMAIN config.domains |-> SumValues(resp, config.domains[d])]]

\* mutant: the total is not capped
calculate_gad7_scores_uncapped(resp, config) ==
  [total_score |-> SumValues(resp, config.questions),
   domain_scores |-> [d \in DOMAIN config.domains |-> SumValues(resp, config.domains[d])]]

calculate_gad7_scores(resp, config) ==
  [total_score |-> Min(SumValues(resp, config.questions), 21),
   domain_scores |-> [d \in DOMAIN config.domains |-> SumValues(resp, config.domains[d])]]

\* mutant: every item is reverse-scored
pss10_item_score_all_reversed(resp, q, reverse_score) == 4 - Value(resp, q, 0)

\* mutant: the reversal uses 3 as the top of the scale
pss10_item_score_scale3(resp, q, reverse_score) ==
  IF q \in reverse_score THEN 3 - Value(resp, q, 0) ELSE Value(resp, q, 0)

\* the scored value of one PSS-10 item
pss10_item_score(resp, q, reverse_score) ==
  IF q \in reverse_score THEN 4 - Value(resp, q, 0) ELSE Value(resp, q, 0)

RECURSIVE SumPSS10(_, _, _)
SumPSS10(resp, qs, reverse_score) ==
  IF qs = <<>> THEN 0
  ELSE pss10_item_score(resp, Head(qs), reverse_score) + SumPSS10(resp, Tail(qs), reverse_score)

calculate_pss10_scores(resp, config) ==
  [total_score |-> Min(SumPSS10(resp, config.questions, config.reverse_score), 40),
   domain_scores |-> [d \in DOMAIN config.domains |->
                        SumPSS10(resp, config.domains[d], config.reverse_score)]]

calculate_psqi_component(component_name, config, resp) ==
  CASE config.scoring = "direct" -> Min(Value(resp, config.question, 0), 3)
    [] config.scoring = "component" ->
         LET total == SumValues(resp, config.questions)
         IN  IF total = 0 THEN 0 ELSE IF total <= 2 THEN 1 ELSE IF total <= 4 THEN 2 ELSE 3
    [] config.scoring = "duration_bands" ->
         LET hours == Value(resp, "hours_sleep", 7)
         IN  IF hours >= 7 THEN 0 ELSE IF hours >= 6 THEN 1 ELSE IF hours >= 5 THEN 2 ELSE 3
    [] config.scoring = "efficiency_calc" ->
         LET hours_sleep == Value(resp, "hours_sleep", 7)
             time_in_bed == Value(resp, "time_in_bed", 8)
         IN  IF time_in_bed > 0
             \* efficiency = (hours_sleep / time_in_bed) * 100, compared exactly
             THEN IF hours_sleep * 100 >= 85 * time_in_bed THEN 0
                  ELSE IF hours_sleep * 100 >= 75 * time_in_bed THEN 1
                  ELSE IF hours_sleep * 100 >= 65 * time_in_bed THEN 2
                  ELSE 3
             ELSE 3
    [] config.scoring = "disturbance_sum" ->
         LET total == SumValues(resp, config.questions)
         IN  IF total = 0 THEN 0 ELSE IF total <= 9 THEN 1 ELSE IF total <= 18 THEN 2 ELSE 3
    [] OTHER -> 0

RECURSIVE SumDomains(_, _)
\* sum(domain_scores.values())
SumDomains(scores, names) ==
  IF names = {} THEN 0
  ELSE LET d == CHOOSE x \in names : TRUE
       IN  scores[d] + SumDomains(scores, names \ {d})

calculate_psqi_scores(resp, config) ==
  LET domain_scores == [c \in DOMAIN config.components |->
                          calculate_psqi_component(c, config.components[c], resp)]
  IN  [total_score |-> Min(SumDomains(domain_scores, DOMAIN domain_scores), 21),
       domain_scores |-> domain_scores]

\* mutant: an unanswered item is counted at the top of the 1-5 scale
k10_item_score_missing_worst(resp, q) ==
  IF q \in DOMAIN resp THEN Value(resp, q, 0) + 1 ELSE 5

\* mutant: an unanswered item is skipped
k10_item_score_missing_skipped(resp, q) ==
  IF q \in DOMAIN resp THEN Value(resp, q, 0) + 1 ELSE 0

\* mutant: the answer is not moved from the 0-4 scale to the 1-5 scale
k10_item_score_unshifted(resp, q) == Value(resp, q, 0)

\* the scored value of one K10 item
k10_item_score(resp, q) == Value(resp, q, 0) + 1

RECURSIVE SumK10(_, _)
SumK10(resp, qs) ==
  IF qs = <<>> THEN 0 ELSE k10_item_score(resp, Head(qs)) + SumK10(resp, Tail(qs))

calculate_k10_scores(resp, config) ==
  [total_score |-> Min(SumK10(resp, config.questions), 50),
   domain_scores |-> [d \in DOMAIN config.domains |-> SumK10(resp, config.domains[d])]]

calculate_scores(type, resp) ==
  LET algorithm_config == algorithm_config_of(type)
  IN  CASE type = "Depression Screening" -> calculate_phq9_scores(resp, algorithm_config)
        [] type = "Anxiety Disorders Screening" -> calculate_gad7_scores(resp, algorithm_config)
        [] type = "Stress & Trauma Assessment" -> calculate_pss10_scores(resp, algorithm_config)
        [] type = "Sleep Disorders Screening" -> calculate_psqi_scores(resp, algorithm_config)
        [] type = "General Mental Health Screening" -> calculate_k10_scores(resp, algorithm_config)
        \* fallback to simple summation for unknown types
        [] OTHER -> [total_score |-> Min(SumValues(resp, algorithm_config.questions),
                                         algorithm_config.max_score),
                     domain_scores |-> NoComponents]

(***************************************************************************)
(* CodeBasedAnalysisEngine: severity, risk level and red flags.            *)
(***************************************************************************)
severity_mapping ==
  [name \in {"minimal", "mild", "moderate", "moderately_severe", "severe", "good", "poor",
             "likely_well", "likely_mild", "likely_moderate", "likely_severe"} |->
     CASE name \in {"minimal", "good", "likely_well"} -> "minimal"
       [] name \in {"mild", "likely_mild"} -> "mild"
       [] name \in {"moderate", "poor", "likely_moderate"} -> "moderate"
       [] name = "moderately_severe" -> "moderately_severe"
       [] name \in {"severe", "likely_severe"} -> "severe"]

\* mutant: the upper bound of an interval is taken as exclusive
MatchingCutoffs_exclusive(cutoffs, total_score) ==
  {i \in DOMAIN cutoffs : cutoffs[i].lo <= total_score /\ total_score < cutoffs[i].hi}

\* the positions of the cutoff intervals that contain total_score
MatchingCutoffs(cutoffs, total_score) ==
  {i \in DOMAIN cutoffs : cutoffs[i].lo <= total_score /\ total_score <= cutoffs[i].hi}

\* the first interval, in table order, that contains total_score; 0 if none
FirstCutoff(cutoffs, total_score) ==
  LET m == MatchingCutoffs(cutoffs, total_score)
  IN  IF m = {} THEN 0 ELSE CHOOSE i \in m : \A j \in m : i <= j

\* mutant: mild starts at 50 percent
percentage_severity_mild_from_50(total_score, max_score) ==
  IF total_score * 100 >= 80 * max_score THEN "severe"
  ELSE IF total_score * 100 >= 60 * max_score THEN "moderate"
  ELSE IF total_score * 100 >= 50 * max_score THEN "mild"
  ELSE "minimal"

\* score_percentage = (total_score / max_score) * 100 against the thresholds
percentage_severity(total_score, max_score) ==
  IF total_score * 100 >= 80 * max_score THEN "severe"
  ELSE IF total_score * 100 >= 60 * max_score THEN "moderate"
  ELSE IF total_score * 100 >= 30 * max_score THEN "mild"
  ELSE "minimal"

determine_severity(type, total_score) ==
  LET algorithm_config == algorithm_config_of(type)
      i == FirstCutoff(algorithm_config.cutoffs, total_score)
  IN  IF i # 0
      THEN Get(severity_mapping, algorithm_config.cutoffs[i].name, "moderate")
      ELSE percentage_severity(total_score, algorithm_config.max_score)

critical_responses == {"suicidal_ideation", "self_harm", "substance_abuse", "psychosis"}

high_risk_responses == {"severe_depression", "panic_attacks", "trauma_symptoms"}

\* mutant: the two total-score thresholds are exchanged
assess_risk_level_swapped(type, resp, total_score) ==
  LET has_critical == \E item \in critical_responses : Value(resp, item, 0) >= 2
      has_high_risk == \E item \in high_risk_responses : Value(resp, item, 0) >= 3
  IN  IF has_critical THEN "critical"
      ELSE IF has_high_risk \/ total_score > 20 THEN "moderate"
      ELSE IF total_score > 10 THEN "high"
      ELSE "low"

\* mutant: a total score above 30 is treated as out of range and rated low
assess_risk_level_low_above_30(type, resp, total_score) ==
  LET has_critical == \E item \in critical_responses : Value(resp, item, 0) >= 2
      has_high_risk == \E item \in high_risk_responses : Value(resp, item, 0) >= 3
  IN  IF has_critical THEN "critical"
      ELSE IF total_score > 30 THEN "low"
      ELSE IF has_high_risk \/ total_score > 20 THEN "high"
      ELSE IF total_score > 10 THEN "moderate"
      ELSE "low"

assess_risk_level(type, resp, total_score) ==
  LET has_critical == \E item \in critical_responses : Value(resp, item, 0) >= 2
      has_high_risk == \E item \in high_risk_responses : Value(resp, item, 0) >= 3
  IN  IF has_critical THEN "critical"
      ELSE IF has_high_risk \/ total_score > 20 THEN "high"
      ELSE IF total_score > 10 THEN "moderate"
      ELSE "low"

\* RiskLevel in the order low < moderate < high < critical
RiskRank(level) ==
  CASE level = "low" -> 1 [] level = "moderate" -> 2 [] level = "high" -> 3
    [] level = "critical" -> 4

suicidal_indicators == {"suicidal_ideation", "death_wishes", "self_harm"}

substance_indicators == {"alcohol_use", "drug_use", "substance_problems"}

psychotic_indicators == {"hallucinations", "delusions", "paranoia", "reality_distortion"}

trauma_indicators == {"trauma_exposure", "ptsd_symptoms", "dissociation"}

\* the red flags in the order the code appends them, each named by its rule
identify_red_flags(resp, domain_scores) ==
  (IF \E i \in suicidal_indicators : Value(resp, i, 0) >= 1
   THEN <<"suicidal_ideation_or_self_harm">> ELSE <<>>)
  \o (IF \E i \in substance_indicators : Value(resp, i, 0) >= 2
      THEN <<"substance_use">> ELSE <<>>)
  \o (IF \E i \in psychotic_indicators : Value(resp, i, 0) >= 1
      THEN <<"psychotic_symptoms">> ELSE <<>>)
  \o (IF DOMAIN domain_scores # {} /\ SumDomains(domain_scores, DOMAIN domain_scores) > 25
      THEN <<"severe_functional_impairment">> ELSE <<>>)
  \o (IF \E i \in trauma_indicators : Value(resp, i, 0) >= 2
      THEN <<"trauma_related_symptoms">> ELSE <<>>)

\* the AnalysisResult of analyze_assessment, without its generated texts;
\* timestamp is the reading of the clock at the call
AnalysisOf(type, resp, timestamp) ==
  LET scores == calculate_scores(type, resp)
  IN  [kind |-> "analysis",
       assessment_type |-> type,
       total_score |-> scores.total_score,
       max_possible_score |-> algorithm_config_of(type).max_score,
       severity_level |-> determine_severity(type, scores.total_score),
       risk_level |-> assess_risk_level(type, resp, scores.total_score),
       domain_scores |-> scores.domain_scores,
       red_flags |-> identify_red_flags(resp, scores.domain_scores),
       timestamp |-> timestamp]

(***************************************************************************)
(* The question ids each instrument scores, and the inputs of the model.   *)
(***************************************************************************)
RECURSIVE ComponentQuestions(_)
ComponentQuestions(names) ==
  IF names = {} THEN {}
  ELSE LET c == CHOOSE x \in names : TRUE
           cfg == PSQIComponents[c]
       IN  (IF cfg.question = "" THEN {} ELSE {cfg.question})
           \cup Range(cfg.questions) \cup ComponentQuestions(names \ {c})

\* every question id the scoring of the instrument reads
ScoredQuestions(type) ==
  Range(algorithm_config_of(type).questions)
  \cup ComponentQuestions(DOMAIN algorithm_config_of(type).components)

HourQuestions == {"hours_sleep", "time_in_bed"}

\* the largest in-scale answer of the instrument's items
ScaleMax(type) ==
  CASE type = "Depression Screening" -> 3
    [] type = "Anxiety Disorders Screening" -> 3
    [] type = "Stress & Trauma Assessment" -> 4
    [] type = "Sleep Disorders Screening" -> 3
    [] type = "General Mental Health Screening" -> 4

\* risk and red-flag items a response set of the model may also carry
ExtraKeys == {"suicidal_ideation", "severe_depression", "death_wishes"}

EngineKeys(type) == ScoredQuestions(type) \cup ExtraKeys

NumericAnswers(q) ==
  {Num(n) : n \in (0 - OutOfScale)..(IF q \in HourQuestions THEN MaxHours ELSE MaxAnswer)}

\* the response sets a run starts from: nothing answered, or every scored
\* question answered with the same value
StartResponses(type) ==
  {[q \in {} |-> Num(0)]}
  \cup {[q \in ScoredQuestions(type) |-> Num(b)] : b \in {0, 2, ScaleMax(type)}}

\* no use of the EncryptionManager is under way
SecurityIdle ==
  /\ data = None
  /\ encrypted = None
  /\ decrypted = None
  /\ encrypted_pii = None
  /\ decrypted_pii = None
  /\ signature = None
  /\ verified = None

\* the widgets of the age verification page as they are first rendered
DefaultAgeForm ==
  [age |-> 18, parent_name |-> "", parent_phone |-> "", parent_email |-> "",
   consent_checkbox |-> FALSE]

NoResponses == [t \in {} |-> [q \in {} |-> Num(0)]]

\* the session state app.py initialises, before main has run;
\* selected_assessment is read only once an assessment was started
SessionIdle ==
  /\ consent_given = FALSE
  /\ age_verified = FALSE
  /\ consent_id = None
  /\ rendered = "compliance_homepage"
  /\ minor_consent = None
  /\ age_form = DefaultAgeForm
  /\ assessment_started = FALSE
  /\ selected_assessment = "General Mental Health Screening"
  /\ session_responses = NoResponses
  /\ assessment_results = None

StorageIdle ==
  /\ consent_records = <<>>
  /\ assessments = <<>>
  /\ diagnostic_reports = <<>>
  /\ storage_result = None

\* no request to the inference API was made
Phi3Idle ==
  /\ messages = [anxiety |-> FALSE, depression |-> FALSE]
  /\ tried = <<>>
  /\ api_response = None

OtherIdle == SecurityIdle /\ SessionIdle /\ StorageIdle /\ Phi3Idle

(***************************************************************************)
(* The engine as a state machine.                                          *)
(***************************************************************************)
Init ==
  /\ assessment_type \in Instruments
  /\ responses \in StartResponses(assessment_type)
  /\ edits = 0
  /\ analysis_result = None
  /\ tools_result = None
  /\ crisis_assessment = None
  /\ crisis_records = <<>>
  /\ crisis_alerts = 0
  /\ user_row = TRUE
  /\ now = 0
  /\ earlier_result = None
  /\ audit_log = <<>>
  /\ OtherIdle

\* one answer of the response set is given or changed
AnswerQuestion(q, v) ==
  /\ edits < MaxEdits
  /\ responses' = Put(responses, q, v)
  /\ edits' = edits + 1
  /\ analysis_result' = None
  /\ earlier_result' = None
  /\ UNCHANGED <<assessment_type, tools_result, crisis_assessment, crisis_records,
                 crisis_alerts, user_row, now, audit_log>>
  /\ UNCHANGED other_vars

Answer ==
  \E q \in EngineKeys(assessment_type) : \E v \in NumericAnswers(q) : AnswerQuestion(q, v)

\* one call of analyze_assessment on the current assessment data; the result
\* of the call before it, on the same data, is kept for comparison
analyze_assessment ==
  /\ earlier_result = None
  /\ analysis_result' = AnalysisOf(assessment_type, responses, now)
  /\ earlier_result' = analysis_result
  /\ UNCHANGED <<assessment_type, responses, edits, tools_result, crisis_assessment,
                 crisis_records, crisis_alerts, user_row, now, audit_log>>
  /\ UNCHANGED other_vars

Next == Answer \/ analyze_assessment

Spec == Init /\ [][Next]_vars

(***************************************************************************)
(* Calls of the engine over time: answers in the three formats the         *)
(* questionnaire produces, assessment types the engine has no algorithm    *)
(* for, and a clock that advances between calls.                           *)
(***************************************************************************)
\* assessment types of the questionnaire that scoring_algorithms lacks
UnknownTypes == {"Substance Use Screening"}

\* the string answers of the model
StringAnswers == {"never", "Never", "NEVER", "sometimes", "Sometimes", "SOMETIMES",
                  "often", "Often", "OFTEN", "3", "maybe"}

\* an answer in any of the three formats
AnyAnswers == {Str(x) : x \in StringAnswers} \cup {List(n) : n \in 0..MaxSelected} \cup {Num(1)}

\* the question ids whose answers a run of the calls specification changes
CallKeys(type) ==
  LET qs == algorithm_config_of(type).questions
  IN  (IF type \in UnknownTypes THEN {"sub_001", "sub_002"}
       ELSE IF qs # <<>> THEN {qs[1], qs[Len(qs)]}
       ELSE {"sleep_quality", "hours_sleep"})
      \cup {"suicidal_ideation"}

\* the response sets a run starts from: nothing answered, or every question
\* answered 2
StartCalls(type) ==
  {[q \in {} |-> Num(0)]}
  \cup {[q \in (IF type \in UnknownTypes THEN {"sub_001", "sub_002"}
                 ELSE ScoredQuestions(type)) |-> Num(2)]}

InitCalls ==
  /\ assessment_type \in Instruments \cup UnknownTypes
  /\ responses \in StartCalls(assessment_type)
  /\ edits = 0
  /\ analysis_result = None
  /\ tools_result = None
  /\ crisis_assessment = None
  /\ crisis_records = <<>>
  /\ crisis_alerts = 0
  /\ user_row = TRUE
  /\ now = 0
  /\ earlier_result = None
  /\ audit_log = <<>>
  /\ OtherIdle

\* one answer of the response set is given or changed, in any format
AnswerInAnyFormat ==
  \E q \in CallKeys(assessment_type) : \E v \in AnyAnswers :
    /\ edits < MaxCallEdits
    /\ responses' = Put(responses, q, v)
    /\ edits' = edits + 1
    /\ analysis_result' = None
    /\ earlier_result' = None
    /\ UNCHANGED <<assessment_type, tools_result, crisis_assessment, crisis_records,
                   crisis_alerts, user_row, now, audit_log>>
    /\ UNCHANGED other_vars

\* datetime.datetime.now() reads a later time
Tick ==
  /\ now < MaxTime
  /\ now' = now + 1
  /\ UNCHANGED <<assessment_type, responses, edits, analysis_result, tools_result,
                 crisis_assessment, crisis_records, crisis_alerts, user_row, earlier_result,
                 audit_log>>
  /\ UNCHANGED other_vars

NextCalls == AnswerInAnyFormat \/ Tick \/ analyze_assessment

SpecCalls == InitCalls /\ [][NextCalls]_vars

(***************************************************************************)
(* AssessmentTools: risk indicators and crisis flags.  These compare the   *)
(* raw answer, without normalising it; comparing a string or a list with   *)
(* a number raises TypeError.                                              *)
(***************************************************************************)
\* the keys whose raw answer the tools compare with a number
ToolsNumericKeys == {"dep_005", "anx_001", "anx_005", "severity_function_001",
                     "severity_social_001", "gen_006", "sleep_001"}

\* responses.get(key, 0) of a key that holds a number
Raw(resp, key) == Get(resp, key, Num(0)).n

\* responses.get(key) in options, for a multiple-choice key
Chosen(resp, key, options) ==
  key \in DOMAIN resp /\ resp[key].kind = "str" /\ resp[key].s \in options

RaisesTypeError(resp, keys) == \E k \in keys : k \in DOMAIN resp /\ resp[k].kind # "num"

\* the types of the risk indicators, sorted by priority
identify_risk_indicators(resp) ==
  (IF Raw(resp, "dep_005") >= 1 THEN <<"suicidal_ideation">> ELSE <<>>)
  \o (IF Chosen(resp, "sub_004", {"Yes"}) THEN <<"substance_abuse">> ELSE <<>>)
  \o (IF \E k \in {"anx_005", "severity_function_001", "severity_social_001"} : Raw(resp, k) >= 3
      THEN <<"functional_impairment">> ELSE <<>>)
  \o (IF Raw(resp, "anx_001") >= 3 THEN <<"panic_disorder">> ELSE <<>>)
  \o (IF Chosen(resp, "trauma_001", {"Yes, once", "Yes, multiple times"})
      THEN <<"trauma_exposure">> ELSE <<>>)

Flag(type, severity) == [type |-> type, severity |-> severity]

check_crisis_indicators(resp) ==
  (IF Raw(resp, "dep_005") >= 2 THEN <<Flag("suicidal_ideation", "high")>> ELSE <<>>)
  \o (IF Chosen(resp, "crisis_suicide_001", {"Often", "Right now"})
      THEN <<Flag("active_suicidal_ideation", "critical")>> ELSE <<>>)
  \o (IF Chosen(resp, "crisis_suicide_002", {"Specific plan", "Detailed plan"})
      THEN <<Flag("suicide_plan", "critical")>> ELSE <<>>)
  \o (IF Raw(resp, "severity_function_001") >= 4 \/ Raw(resp, "severity_social_001") >= 4
      THEN <<Flag("severe_impairment", "moderate")>> ELSE <<>>)

\* the result of analyze_responses: its risk indicators and crisis flags
ToolsAnalysisOf(type, resp) ==
  IF RaisesTypeError(resp, ToolsNumericKeys)
  THEN [kind |-> "raised", error |-> "TypeError"]
  ELSE [kind |-> "tools",
        assessment_type |-> type,
        risk_indicators |-> identify_risk_indicators(resp),
        crisis_flags |-> check_crisis_indicators(resp)]

(***************************************************************************)
(* CrisisIntervention.assess_crisis_level.                                 *)
(***************************************************************************)
CrisisNumericKeys == {"dep_005", "severity_function_001", "severity_social_001",
                      "anx_005", "gen_006", "sleep_001"}

risk_score_of(resp) ==
  (IF Raw(resp, "dep_005") >= 3 THEN 4
   ELSE IF Raw(resp, "dep_005") >= 2 THEN 3
   ELSE IF Raw(resp, "dep_005") >= 1 THEN 1 ELSE 0)
  + (IF Chosen(resp, "crisis_suicide_001", {"Right now"}) THEN 5
     ELSE IF Chosen(resp, "crisis_suicide_001", {"Often"}) THEN 4
     ELSE IF Chosen(resp, "crisis_suicide_001", {"Sometimes"}) THEN 2 ELSE 0)
  + (IF Chosen(resp, "crisis_suicide_002", {"Detailed plan"}) THEN 5
     ELSE IF Chosen(resp, "crisis_suicide_002", {"Specific plan"}) THEN 4
     ELSE IF Chosen(resp, "crisis_suicide_002", {"Vague thoughts"}) THEN 2 ELSE 0)
  + (IF \E k \in {"severity_function_001", "severity_social_001", "anx_005"} : Raw(resp, k) >= 4
     THEN 2 ELSE 0)
  + (IF Chosen(resp, "sub_004", {"Yes"}) THEN 1 ELSE 0)
  + (IF Chosen(resp, "trauma_001", {"Yes, once", "Yes, multiple times"}) THEN 1 ELSE 0)

crisis_level_of(risk_score) ==
  IF risk_score >= 10 THEN "level_5_critical"
  ELSE IF risk_score >= 8 THEN "level_4_high"
  ELSE IF risk_score >= 5 THEN "level_3_moderate"
  ELSE IF risk_score >= 2 THEN "level_2_low"
  ELSE "level_1_minimal"

immediate_action_required(risk_score) == risk_score >= 8

CrisisAssessmentOf(resp) ==
  LET risk_score == risk_score_of(resp)
  IN  [kind |-> "crisis",
       level |-> crisis_level_of(risk_score),
       score |-> risk_score,
       immediate_action_required |-> immediate_action_required(risk_score),
       professional_contact_required |-> risk_score >= 2]

(***************************************************************************)
(* The questionnaire answers the tools and the crisis assessment read.     *)
(***************************************************************************)
\* question ids of the questionnaire whose answers a run may give
CrisisScaleMax ==
  [k \in {"dep_005", "severity_function_001", "anx_005", "gen_006"} |->
     IF k = "dep_005" THEN 3 ELSE 4]

CrisisOptions ==
  [k \in {"crisis_suicide_001", "crisis_suicide_002", "sub_004", "trauma_001"} |->
     CASE k = "crisis_suicide_001" -> {"No", "Sometimes", "Often", "Right now"}
       [] k = "crisis_suicide_002" -> {"No", "Vague thoughts", "Specific plan", "Detailed plan"}
       [] k = "sub_004" -> {"No", "Yes", "Prefer not to answer"}
       [] k = "trauma_001" -> {"No", "Yes, once", "Yes, multiple times", "Prefer not to answer"}]

CrisisKeys == (DOMAIN CrisisScaleMax) \cup (DOMAIN CrisisOptions)

\* a scale answer, or the same question answered with a string or a list;
\* an option of a multiple-choice question
CrisisAnswers(k) ==
  IF k \in DOMAIN CrisisScaleMax
  THEN {Num(n) : n \in 0..CrisisScaleMax[k]} \cup {Str("Often"), List(1)}
  ELSE {Str(o) : o \in CrisisOptions[k]}

\* the depression questionnaire as its sliders first show it: every item 0
DepressionDefaults == [q \in {"dep_001", "dep_002", "dep_003", "dep_004", "dep_005"} |-> Num(0)]

InitCrisis ==
  /\ assessment_type = "Depression Screening"
  /\ responses = DepressionDefaults
  /\ edits = 0
  /\ analysis_result = None
  /\ tools_result = None
  /\ crisis_assessment = None
  /\ crisis_records = <<>>
  /\ crisis_alerts = 0
  /\ user_row \in BOOLEAN
  /\ now = 0
  /\ earlier_result = None
  /\ audit_log = <<>>
  /\ OtherIdle

AnswerQuestionnaire(q, v) ==
  /\ edits < MaxCrisisEdits
  /\ responses' = Put(responses, q, v)
  /\ edits' = edits + 1
  /\ tools_result' = None
  /\ crisis_assessment' = None
  /\ UNCHANGED <<assessment_type, analysis_result, crisis_records, crisis_alerts, user_row,
                 now, earlier_result, audit_log>>
  /\ UNCHANGED other_vars

AnswerCrisis == \E q \in CrisisKeys : \E v \in CrisisAnswers(q) : AnswerQuestionnaire(q, v)

analyze_responses ==
  /\ tools_result = None
  /\ tools_result' = ToolsAnalysisOf(assessment_type, responses)
  /\ UNCHANGED <<assessment_type, responses, edits, analysis_result, crisis_assessment,
                 crisis_records, crisis_alerts, user_row, now, earlier_result,
                 audit_log>>
  /\ UNCHANGED other_vars

\* _log_action: one row is added to the audit_log table
log_action(log, action_type, resource_type) ==
  Append(log, [action_type |-> action_type, resource_type |-> resource_type])

\* _store_crisis_assessment: the record is inserted when the session user has
\* a user_data row (foreign key), and an alert is raised for it when immediate
\* action is required; a failed insert is reported and nothing is stored
store_crisis_assessment(assessment) ==
  IF user_row
  THEN /\ crisis_records' = Append(crisis_records,
                                   [level |-> assessment.level,
                                    immediate_action_required |->
                                      assessment.immediate_action_required])
       /\ audit_log' = log_action(audit_log, "create", "crisis_record")
       /\ crisis_alerts' = IF assessment.immediate_action_required
                           THEN crisis_alerts + 1 ELSE crisis_alerts
  ELSE UNCHANGED <<crisis_records, crisis_alerts, audit_log>>

assess_crisis_level ==
  /\ crisis_assessment = None
  /\ Len(crisis_records) < MaxRecords
  /\ IF RaisesTypeError(responses, CrisisNumericKeys)
     THEN /\ crisis_assessment' = [kind |-> "raised", error |-> "TypeError"]
          /\ UNCHANGED <<crisis_records, crisis_alerts, audit_log>>
     ELSE /\ crisis_assessment' = CrisisAssessmentOf(responses)
          /\ store_crisis_assessment(CrisisAssessmentOf(responses))
  /\ UNCHANGED <<assessment_type, responses, edits, analysis_result, tools_result, user_row,
                 now, earlier_result>>
  /\ UNCHANGED other_vars

NextCrisis == AnswerCrisis \/ analyze_responses \/ assess_crisis_level

SpecCrisis == InitCrisis /\ [][NextCrisis]_vars

(***************************************************************************)
(* The EncryptionManager (security/encryption.py): one value is encrypted  *)
(* and decrypted, as a whole and field by field, and signed and verified.  *)
(***************************************************************************)
Bool(b) == [kind |-> "bool", n |-> IF b THEN 1 ELSE 0, s |-> ""]

Dict(items) == [kind |-> "dict", items |-> items]

Returned(value) == [kind |-> "returned", value |-> value]

EmptyItems == [field \in {} |-> Str("")]

\* the dictionaries tried; the first is the one of the module's self-test
PIIDicts ==
  { Dict([email |-> Str("test@example.com"), phone |-> Str("1234567890")]),
    Dict([name |-> Str("Asha")]),
    Dict([name |-> Str("Asha"), email |-> Str("test@example.com")]),
    Dict([user_id |-> Str("true")]) }

\* the texts json.loads accepts, each with the value it returns
JsonTable ==
  { <<"123", Num(123)>>,
    <<"1234567890", Num(1234567890)>>,
    <<"true", Bool(TRUE)>>,
    <<"null", None>>,
    <<"[]", List(0)>>,
    <<"{}", Dict(EmptyItems)>>,
    <<"\"hi\"", Str("hi")>>,
    <<"{\"score\": 3}", Dict([score |-> Num(3)])>>,
    <<"{\"email\": \"test@example.com\", \"phone\": \"1234567890\"}",
      Dict([email |-> Str("test@example.com"), phone |-> Str("1234567890")])>>,
    <<"{\"name\": \"Asha\"}", Dict([name |-> Str("Asha")])>>,
    <<"{\"name\": \"Asha\", \"email\": \"test@example.com\"}",
      Dict([name |-> Str("Asha"), email |-> Str("test@example.com")])>>,
    <<"{\"user_id\": \"true\"}", Dict([user_id |-> Str("true")])>> }

\* json.loads: the value of a JSON text, JSONDecodeError for any other string
json_loads(text) ==
  IF \E p \in JsonTable : p[1] = text
  THEN Returned((CHOOSE p \in JsonTable : p[1] = text)[2])
  ELSE [kind |-> "raised", error |-> "JSONDecodeError"]

\* json.dumps(data, default=str, ensure_ascii=False)
json_dumps(value) == (CHOOSE p \in JsonTable : p[2] = value)[1]

\* Fernet encryption followed by base64: a token only the key opens
cipher_suite_encrypt(data_string) == [kind |-> "token", plaintext |-> data_string]

cipher_suite_decrypt(token) == token.plaintext

encrypt_data(value) ==
  cipher_suite_encrypt(IF value.kind = "str" THEN value.s ELSE json_dumps(value))

decrypt_data(token) ==
  LET decrypted_string == cipher_suite_decrypt(token)
      parsed == json_loads(decrypted_string)
  IN  IF parsed.kind = "returned" THEN parsed.value ELSE Str(decrypted_string)

\* SHA-256 of the salted data, taken as free of collisions
hash_data(x) == [kind |-> "sha256", of |-> x]

HashedFields == {"email", "phone", "user_id"}

\* encrypt_pii: the key f"{field}_encrypted" is the pair of field and suffix
encrypt_pii(pii_data) ==
  LET fields == {f \in DOMAIN pii_data.items : pii_data.items[f] # None}
      keys   == {<<f, "_encrypted">> : f \in fields}
                  \cup {<<f, "_hash">> : f \in fields \cap HashedFields}
  IN  [k \in keys |-> IF k[2] = "_encrypted"
                      THEN encrypt_data(Str(pii_data.items[k[1]].s))
                      ELSE hash_data(pii_data.items[k[1]].s)]

decrypt_pii(pii) ==
  LET fields == {k[1] : k \in {k \in DOMAIN pii : k[2] = "_encrypted"}}
  IN  Dict([f \in fields |-> decrypt_data(pii[<<f, "_encrypted">>])])

\* the signature is the hash of the normalised JSON text of the data followed
\* by the reading of the clock (_get_timestamp)
create_data_integrity_signature(value, timestamp) == hash_data(<<value, timestamp>>)

verify_data_integrity(value, sig, timestamp) ==
  sig = create_data_integrity_signature(value, timestamp)

\* the strings tried: plain text, and text that is also a JSON document
SecurityStrings ==
  { "Test data for encryption verification", "test@example.com", "hello", "",
    "1234567890", "123", "true", "null", "[]", "{}", "\"hi\"", "{\"score\": 3}" }

SecurityValues ==
  {Str(x) : x \in SecurityStrings} \cup PIIDicts
    \cup {Dict(EmptyItems), Dict([score |-> Num(3)])}

\* the engine, the crisis assessment and the storage are not in use
EngineIdle ==
  /\ assessment_type = "Depression Screening"
  /\ responses = DepressionDefaults
  /\ edits = 0
  /\ analysis_result = None
  /\ tools_result = None
  /\ crisis_assessment = None
  /\ crisis_records = <<>>
  /\ crisis_alerts = 0
  /\ user_row = TRUE
  /\ now = 0
  /\ earlier_result = None
  /\ audit_log = <<>>

InitSecurity ==
  /\ EngineIdle
  /\ Phi3Idle
  /\ SessionIdle
  /\ StorageIdle
  /\ data \in SecurityValues
  /\ encrypted = None
  /\ decrypted = None
  /\ encrypted_pii = None
  /\ decrypted_pii = None
  /\ signature = None
  /\ verified = None

Encrypt ==
  /\ encrypted = None
  /\ encrypted' = encrypt_data(data)
  /\ UNCHANGED <<data, decrypted, encrypted_pii, decrypted_pii, signature, verified>>
  /\ UNCHANGED <<engine_vars, session_vars, storage_vars, phi3_vars>>

Decrypt ==
  /\ encrypted # None
  /\ decrypted = None
  /\ decrypted' = Returned(decrypt_data(encrypted))
  /\ UNCHANGED <<data, encrypted, encrypted_pii, decrypted_pii, signature, verified>>
  /\ UNCHANGED <<engine_vars, session_vars, storage_vars, phi3_vars>>

EncryptPII ==
  /\ data \in PIIDicts
  /\ encrypted_pii = None
  /\ encrypted_pii' = Returned(encrypt_pii(data))
  /\ UNCHANGED <<data, encrypted, decrypted, decrypted_pii, signature, verified>>
  /\ UNCHANGED <<engine_vars, session_vars, storage_vars, phi3_vars>>

DecryptPII ==
  /\ encrypted_pii # None
  /\ decrypted_pii = None
  /\ decrypted_pii' = Returned(decrypt_pii(encrypted_pii.value))
  /\ UNCHANGED <<data, encrypted, decrypted, encrypted_pii, signature, verified>>
  /\ UNCHANGED <<engine_vars, session_vars, storage_vars, phi3_vars>>

\* signature = create_data_integrity_signature(data)
Sign ==
  /\ signature = None
  /\ signature' = Returned(create_data_integrity_signature(data, now))
  /\ UNCHANGED <<data, encrypted, decrypted, encrypted_pii, decrypted_pii, verified>>
  /\ UNCHANGED <<engine_vars, session_vars, storage_vars, phi3_vars>>

\* verify_data_integrity(data, signature)
Verify ==
  /\ signature # None
  /\ verified = None
  /\ verified' = Returned(verify_data_integrity(data, signature.value, now))
  /\ UNCHANGED <<data, encrypted, decrypted, encrypted_pii, decrypted_pii, signature>>
  /\ UNCHANGED <<engine_vars, session_vars, storage_vars, phi3_vars>>

NextSecurity == Encrypt \/ Decrypt \/ EncryptPII \/ DecryptPII \/ Sign \/ Verify \/ Tick

SpecSecurity == InitSecurity /\ [][NextSecurity]_vars

(***************************************************************************)
(* The application flow of app.py: consent, age verification, and in the   *)
(* main application the Basic Assessment and the clinical analysis.  Each  *)
(* action is one run of the script after one interaction of the user.      *)
(***************************************************************************)
Scale(id, scale_min, scale_max) ==
  [id |-> id, type |-> "scale", scale_min |-> scale_min, scale_max |-> scale_max,
   options |-> <<>>]

MultipleChoice(id, options) ==
  [id |-> id, type |-> "multiple_choice", scale_min |-> 0, scale_max |-> 0,
   options |-> options]

Checkbox(id, options) ==
  [id |-> id, type |-> "checkbox", scale_min |-> 0, scale_max |-> 0, options |-> options]

question_banks ==
  [
   general_screening |->
     <<Scale("gen_001", 0, 3),
       Scale("gen_002", 0, 3),
       Scale("gen_003", 0, 3),
       Scale("gen_004", 0, 3),
       Scale("gen_005", 0, 4),
       Scale("gen_006", 0, 4)>>,
   anxiety_screening |->
     <<Scale("anx_001", 0, 4),
       Scale("anx_002", 0, 4),
       MultipleChoice("anx_003", <<"Never", "Rarely", "Sometimes", "Often", "Always">>),
       Checkbox("anx_004", <<"Rapid heartbeat or palpitations", "Sweating or trembling",
                             "Shortness of breath", "Chest pain or tightness",
                             "Nausea or stomach upset", "Dizziness or lightheadedness",
                             "Muscle tension", "None of the above">>),
       Scale("anx_005", 0, 4)>>,
   depression_screening |->
     <<Scale("dep_001", 0, 3),
       Scale("dep_002", 0, 3),
       Scale("dep_003", 0, 3),
       Scale("dep_004", 0, 3),
       Scale("dep_005", 0, 3)>>,
   trauma_screening |->
     <<MultipleChoice("trauma_001", <<"No", "Yes, once", "Yes, multiple times", "Prefer not to answer">>),
       Scale("trauma_002", 0, 4),
       Scale("trauma_003", 0, 4),
       Scale("trauma_004", 0, 4)>>,
   substance_screening |->
     <<MultipleChoice("sub_001", <<"No", "Yes">>),
       MultipleChoice("sub_002", <<"Never", "Monthly or less", "2-4 times a month",
                                   "2-3 times a week", "4 or more times a week">>),
       MultipleChoice("sub_003", <<"1 or 2", "3 or 4", "5 or 6", "7 to 9", "10 or more">>),
       MultipleChoice("sub_004", <<"No", "Yes", "Prefer not to answer">>)>>,
   sleep_screening |->
     <<Scale("sleep_001", 0, 3),
       MultipleChoice("sleep_002", <<"Less than 15 minutes", "15-30 minutes",
                                     "31-60 minutes", "More than 60 minutes">>),
       Scale("sleep_003", 0, 3),
       Scale("sleep_004", 0, 3)>> ]

assessment_map ==
  [t \in {"General Mental Health Screening", "Anxiety Disorders Screening",
          "Depression Screening", "Stress & Trauma Assessment",
          "Substance Use Screening", "Sleep Disorders Screening"} |->
     CASE t = "General Mental Health Screening" -> "general_screening"
       [] t = "Anxiety Disorders Screening" -> "anxiety_screening"
       [] t = "Depression Screening" -> "depression_screening"
       [] t = "Stress & Trauma Assessment" -> "trauma_screening"
       [] t = "Substance Use Screening" -> "substance_screening"
       [] t = "Sleep Disorders Screening" -> "sleep_screening"]

get_basic_questions(type) ==
  question_banks[Get(assessment_map, type, "general_screening")]

\* the assessments the Basic Assessment page offers
OfferedAssessments == DOMAIN assessment_map

\* the answer a widget holds when it is first rendered
DefaultAnswer(question) ==
  CASE question.type = "scale" -> Num(question.scale_min)
    [] question.type = "multiple_choice" -> Str(question.options[1])
    [] question.type = "checkbox" -> List(0)

\* the other end of the widget: the highest scale value, the last option,
\* every option selected
HighestAnswer(question) ==
  CASE question.type = "scale" -> Num(question.scale_max)
    [] question.type = "multiple_choice" -> Str(question.options[Len(question.options)])
    [] question.type = "checkbox" -> List(Len(question.options))

\* the answers tried for a question
AnswersTried(question) == {DefaultAnswer(question), HighestAnswer(question)}

QuestionsOf(type) == Range(get_basic_questions(type))

\* the responses dict after display_enhanced_questionnaire rendered every
\* widget once: each question holds its default answer
RenderedResponses(type) ==
  [id \in {question.id : question \in QuestionsOf(type)} |->
     DefaultAnswer(CHOOSE question \in QuestionsOf(type) : question.id = id)]

HighestResponses(type) ==
  [id \in {question.id : question \in QuestionsOf(type)} |->
     HighestAnswer(CHOOSE question \in QuestionsOf(type) : question.id = id)]

\* re.sub(r'[\s\-\(\)]', '', phone) on the phone numbers tried
cleaned_phone(phone) ==
  CASE phone = "98765 43210" -> "9876543210"
    [] phone = "+91-98765-43210" -> "+919876543210"
    [] OTHER -> phone

\* the cleaned numbers tried that match ^(\+91|91)?[6-9]\d{9}$
PhonePatternMatches == {"9876543210", "+919876543210"}

validate_phone(phone) ==
  /\ phone # ""
  /\ cleaned_phone(phone) \in PhonePatternMatches

\* email.strip().lower() on the addresses tried
stripped_lower(email) ==
  IF email = " Parent@Example.com " THEN "parent@example.com" ELSE email

\* the addresses tried that match the e-mail pattern
EmailPatternMatches == {"parent@example.com"}

validate_email(email) ==
  /\ email # ""
  /\ stripped_lower(email) \in EmailPatternMatches

\* the values tried in the widgets of the age verification page
AgesTried == {5, 17, 18}

AgeForms ==
  [age : {a \in AgesTried : a < 18},
   parent_name : {"", "Asha"},
   parent_phone : {"", "98765 43210", "12345"},
   parent_email : {"", " Parent@Example.com ", "not-an-email"},
   consent_checkbox : BOOLEAN]
  \cup {[DefaultAgeForm EXCEPT !.age = a] : a \in {a \in AgesTried : a >= 18}}

\* the variant of main that shows the main application after consent alone
page_of_ignoring_age(consent, age) ==
  IF ~consent THEN "compliance_homepage" ELSE "main_application"

\* main: the page a run of the script renders
page_of(consent, age) ==
  IF ~consent THEN "compliance_homepage"
  ELSE IF ~age THEN "age_verification"
  ELSE "main_application"

InitApp ==
  /\ assessment_type = "Depression Screening"
  /\ responses = DepressionDefaults
  /\ edits = 0
  /\ analysis_result = None
  /\ tools_result = None
  /\ crisis_assessment = None
  /\ crisis_records = <<>>
  /\ crisis_alerts = 0
  /\ user_row \in BOOLEAN
  /\ now = 0
  /\ earlier_result = None
  /\ audit_log = <<>>
  /\ SecurityIdle
  /\ SessionIdle
  /\ StorageIdle
  /\ Phi3Idle

\* what a run of the application leaves alone in every case
AppUnchanged ==
  UNCHANGED <<assessment_type, responses, tools_result, crisis_assessment, crisis_records,
              crisis_alerts, now, earlier_result, security_vars,
              assessments, diagnostic_reports, storage_result, phi3_vars>>

\* SecureStorage._ensure_user_record_exists followed by the insert into
\* consent_records of store_consent, each with its audit log entry
store_consent ==
  /\ user_row' = TRUE
  /\ consent_records' = Append(consent_records, [consent_type |-> "dpdpa_2023_healthcare"])
  /\ audit_log' = log_action(IF user_row THEN audit_log
                             ELSE log_action(audit_log, "create", "user_data"),
                             "create", "consent")

\* "I Understand and Consent to Data Processing": record_consent returns True
\* when the consent is stored, and False when the storage raises
ClickConsent ==
  /\ rendered = "compliance_homepage"
  /\ \E stored \in BOOLEAN :
       IF stored
       THEN /\ store_consent
            /\ consent_id' = Returned(Len(consent_records) + 1)
            /\ consent_given' = TRUE
            /\ rendered' = page_of(TRUE, age_verified)
       ELSE UNCHANGED <<user_row, consent_records, audit_log, consent_id, consent_given,
                        rendered>>
  /\ UNCHANGED <<age_verified, minor_consent, age_form, assessment_started,
                 selected_assessment, session_responses, assessment_results,
                 edits, analysis_result>>
  /\ AppUnchanged

\* the user changes the widgets of the age verification page
FillAgeForm ==
  /\ rendered = "age_verification"
  /\ \E form \in AgeForms : age_form' = form
  /\ UNCHANGED <<consent_given, age_verified, consent_id, rendered, minor_consent,
                 assessment_started, selected_assessment, session_responses,
                 assessment_results, user_row, consent_records, audit_log, edits,
                 analysis_result>>
  /\ AppUnchanged

\* the variant of the conditions that does not validate the e-mail address
parental_consent_verified_without_email(form) ==
  /\ form.consent_checkbox
  /\ form.parent_name # ""
  /\ form.parent_phone # ""
  /\ validate_phone(form.parent_phone)

\* the conditions under which the click records the parental consent
parental_consent_verified(form) ==
  /\ form.consent_checkbox
  /\ form.parent_name # ""
  /\ form.parent_phone # ""
  /\ validate_phone(form.parent_phone)
  /\ validate_email(form.parent_email)

\* "Verify Parental Consent", the button shown for an age under 18
ClickVerifyParentalConsent ==
  /\ rendered = "age_verification"
  /\ age_form.age < 18
  /\ IF parental_consent_verified(age_form)
     THEN /\ age_verified' = TRUE
          /\ minor_consent' = [parent_name |-> age_form.parent_name,
                               parent_phone |-> age_form.parent_phone,
                               parent_email |-> age_form.parent_email,
                               consent_time |-> now]
          /\ rendered' = page_of(consent_given, TRUE)
          /\ age_form' = DefaultAgeForm
     ELSE UNCHANGED <<age_verified, minor_consent, rendered, age_form>>
  /\ UNCHANGED <<consent_given, consent_id, assessment_started, selected_assessment,
                 session_responses, assessment_results, user_row, consent_records,
                 audit_log, edits, analysis_result>>
  /\ AppUnchanged

\* "Confirm Age and Proceed", the button shown for an age of 18 or more
ClickConfirmAge ==
  /\ rendered = "age_verification"
  /\ age_form.age >= 18
  /\ age_verified' = TRUE
  /\ rendered' = page_of(consent_given, TRUE)
  /\ age_form' = DefaultAgeForm
  /\ UNCHANGED <<consent_given, consent_id, minor_consent, assessment_started,
                 selected_assessment, session_responses, assessment_results, user_row,
                 consent_records, audit_log, edits, analysis_result>>
  /\ AppUnchanged

\* one of the six assessment buttons; the rerun renders the questionnaire,
\* which stores the default answer of every widget not answered before
SelectAssessment ==
  /\ rendered = "main_application"
  /\ ~assessment_started
  /\ \E type \in OfferedAssessments :
       /\ \/ type \in DOMAIN session_responses
          \/ Cardinality(DOMAIN session_responses) < MaxAssessments
       /\ selected_assessment' = type
       /\ session_responses' =
            IF type \in DOMAIN session_responses THEN session_responses
            ELSE Put(session_responses, type, RenderedResponses(type))
  /\ assessment_started' = TRUE
  /\ UNCHANGED <<consent_given, age_verified, consent_id, rendered, minor_consent,
                 age_form, assessment_results, user_row, consent_records, audit_log,
                 edits, analysis_result>>
  /\ AppUnchanged

\* "Change Assessment"
ChangeAssessment ==
  /\ rendered = "main_application"
  /\ assessment_started
  /\ assessment_started' = FALSE
  /\ UNCHANGED <<consent_given, age_verified, consent_id, rendered, minor_consent,
                 age_form, selected_assessment, session_responses, assessment_results,
                 user_row, consent_records, audit_log, edits, analysis_result>>
  /\ AppUnchanged

\* the user moves one widget of the questionnaire; the responses dict of the
\* selected assessment is the one assessment_results refers to
AnswerWidget ==
  /\ rendered = "main_application"
  /\ assessment_started
  /\ edits < MaxAppEdits
  /\ \E question \in QuestionsOf(selected_assessment) :
       \E response \in AnswersTried(question) :
         /\ response # session_responses[selected_assessment][question.id]
         /\ session_responses' =
              Put(session_responses, selected_assessment,
                  Put(session_responses[selected_assessment], question.id, response))
  /\ edits' = edits + 1
  /\ UNCHANGED <<consent_given, age_verified, consent_id, rendered, minor_consent,
                 age_form, assessment_started, selected_assessment, assessment_results,
                 user_row, consent_records, audit_log, analysis_result>>
  /\ AppUnchanged

\* "Submit Assessment", offered when 80% of the questions are answered
submit_assessment ==
  /\ rendered = "main_application"
  /\ assessment_started
  /\ 10 * Cardinality(DOMAIN session_responses[selected_assessment])
       >= 8 * Len(get_basic_questions(selected_assessment))
  /\ assessment_results' =
       [assessment_type |-> selected_assessment,
        responses_count |-> Cardinality(DOMAIN session_responses[selected_assessment])]
  /\ assessment_started' = FALSE
  /\ UNCHANGED <<consent_given, age_verified, consent_id, rendered, minor_consent,
                 age_form, selected_assessment, session_responses, user_row,
                 consent_records, audit_log, edits, analysis_result>>
  /\ AppUnchanged

\* the responses generate_clinical_analysis passes to the engine
SubmittedResponses == session_responses[assessment_results.assessment_type]

\* "Generate Analysis", offered when assessment_results is set
generate_clinical_analysis ==
  /\ rendered = "main_application"
  /\ assessment_results # None
  /\ analysis_result' = AnalysisOf(assessment_results.assessment_type,
                                   SubmittedResponses, now)
  /\ UNCHANGED <<consent_given, age_verified, consent_id, rendered, minor_consent,
                 age_form, assessment_started, selected_assessment, session_responses,
                 assessment_results, user_row, consent_records, audit_log, edits>>
  /\ AppUnchanged

NextApp ==
  \/ ClickConsent
  \/ FillAgeForm
  \/ ClickVerifyParentalConsent
  \/ ClickConfirmAge
  \/ SelectAssessment
  \/ ChangeAssessment
  \/ AnswerWidget
  \/ submit_assessment
  \/ generate_clinical_analysis

SpecApp == InitApp /\ [][NextApp]_vars

(***************************************************************************)
(* SecureStorage (database/secure_storage.py): the rows of the session     *)
(* user in the tables that reference user_data, with foreign keys          *)
(* enforced (PRAGMA foreign_keys = ON).                                    *)
(***************************************************************************)
\* medical records are kept for 7 years
RetentionYears == 7

StoreOperations ==
  {"store_assessment", "store_consent", "store_crisis_record", "store_diagnostic_report"}

StorageReturned(operation) ==
  [kind |-> "returned", operation |-> operation, error |-> ""]

\* the exception the operation reports and raises again
StorageRaised(operation, error) ==
  [kind |-> "raised", operation |-> operation, error |-> error]

\* _ensure_user_record_exists: the audit log after the user_data row was
\* created when it was missing
ensure_user_record_exists(log) ==
  IF user_row THEN log ELSE log_action(log, "create", "user_data")

\* the rows that reference the user_data row of the session user
ReferencingRows ==
  Len(assessments) + Len(consent_records) + Len(crisis_records) + Len(diagnostic_reports)

\* the assessments DELETE ... WHERE created_at < cutoff_date leaves in place
RECURSIVE YoungerThan(_, _)
YoungerThan(rows, cutoff_date) ==
  IF rows = <<>> THEN <<>>
  ELSE IF Head(rows).created_at < cutoff_date
       THEN YoungerThan(Tail(rows), cutoff_date)
       ELSE <<Head(rows)>> \o YoungerThan(Tail(rows), cutoff_date)

\* a database as an earlier session may have left it: no row of the session
\* user, or the user_data row alone, or with it an assessment older than
\* the retention period
InitStorage ==
  /\ assessment_type = "Depression Screening"
  /\ responses = DepressionDefaults
  /\ edits = 0
  /\ analysis_result = None
  /\ tools_result = None
  /\ crisis_assessment = None
  /\ crisis_records = <<>>
  /\ crisis_alerts = 0
  /\ user_row \in BOOLEAN
  /\ now = 0
  /\ earlier_result = None
  /\ audit_log = <<>>
  /\ SecurityIdle
  /\ SessionIdle
  /\ Phi3Idle
  /\ consent_records = <<>>
  /\ diagnostic_reports = <<>>
  /\ storage_result = None
  /\ assessments \in IF user_row
                     THEN {<<>>, <<[created_at |-> 0 - RetentionYears - 1]>>}
                     ELSE {<<>>}

StorageUnchanged ==
  UNCHANGED <<assessment_type, responses, analysis_result, tools_result, crisis_assessment,
              crisis_alerts, now, earlier_result, security_vars, session_vars,
              phi3_vars>>

StoreAssessment ==
  /\ edits < MaxStorageCalls
  /\ Len(assessments) < MaxRecords
  /\ user_row' = TRUE
  /\ assessments' = Append(assessments, [created_at |-> now])
  /\ audit_log' = log_action(ensure_user_record_exists(audit_log), "create", "assessment")
  /\ storage_result' = StorageReturned("store_assessment")
  /\ edits' = edits + 1
  /\ UNCHANGED <<consent_records, crisis_records, diagnostic_reports>>
  /\ StorageUnchanged

StoreConsent ==
  /\ edits < MaxStorageCalls
  /\ Len(consent_records) < MaxRecords
  /\ store_consent
  /\ storage_result' = StorageReturned("store_consent")
  /\ edits' = edits + 1
  /\ UNCHANGED <<assessments, crisis_records, diagnostic_reports>>
  /\ StorageUnchanged

\* store_crisis_record inserts without creating the user_data row
StoreCrisisRecord ==
  /\ edits < MaxStorageCalls
  /\ Len(crisis_records) < MaxRecords
  /\ IF user_row
     THEN /\ crisis_records' = Append(crisis_records,
                                      [level |-> "level_1_minimal",
                                       immediate_action_required |-> FALSE])
          /\ audit_log' = log_action(audit_log, "create", "crisis_record")
          /\ storage_result' = StorageReturned("store_crisis_record")
     ELSE /\ storage_result' = StorageRaised("store_crisis_record", "IntegrityError")
          /\ UNCHANGED <<crisis_records, audit_log>>
  /\ edits' = edits + 1
  /\ UNCHANGED <<user_row, assessments, consent_records, diagnostic_reports>>
  /\ StorageUnchanged

\* store_diagnostic_report inserts without creating the user_data row
StoreDiagnosticReport ==
  /\ edits < MaxStorageCalls
  /\ Len(diagnostic_reports) < MaxRecords
  /\ IF user_row
     THEN /\ diagnostic_reports' = Append(diagnostic_reports,
                                          [report_type |-> "comprehensive"])
          /\ audit_log' = log_action(audit_log, "create", "diagnostic_report")
          /\ storage_result' = StorageReturned("store_diagnostic_report")
     ELSE /\ storage_result' = StorageRaised("store_diagnostic_report", "IntegrityError")
          /\ UNCHANGED <<diagnostic_reports, audit_log>>
  /\ edits' = edits + 1
  /\ UNCHANGED <<user_row, assessments, consent_records, crisis_records>>
  /\ StorageUnchanged

\* delete_user_data(user_hash, 'complete'): the DELETE FROM user_data comes
\* first and fails on a row that another table still references; nothing is
\* committed then
DeleteComplete ==
  /\ edits < MaxStorageCalls
  /\ IF user_row /\ ReferencingRows > 0
     THEN /\ storage_result' = StorageRaised("delete_user_data", "IntegrityError")
          /\ UNCHANGED <<user_row, assessments, diagnostic_reports, audit_log>>
     ELSE /\ user_row' = FALSE
          /\ assessments' = YoungerThan(assessments, now - RetentionYears)
          /\ diagnostic_reports' = <<>>
          /\ audit_log' = log_action(audit_log, "delete", "user_data")
          /\ storage_result' = StorageReturned("delete_user_data")
  /\ edits' = edits + 1
  /\ UNCHANGED <<consent_records, crisis_records>>
  /\ StorageUnchanged

\* delete_user_data(user_hash, 'partial') overwrites encrypted_pii only
DeletePartial ==
  /\ edits < MaxStorageCalls
  /\ audit_log' = log_action(audit_log, "delete", "user_data")
  /\ storage_result' = StorageReturned("delete_user_data_partial")
  /\ edits' = edits + 1
  /\ UNCHANGED <<user_row, assessments, consent_records, crisis_records,
                 diagnostic_reports>>
  /\ StorageUnchanged

NextStorage ==
  \/ StoreAssessment
  \/ StoreConsent
  \/ StoreCrisisRecord
  \/ StoreDiagnosticReport
  \/ DeleteComplete
  \/ DeletePartial
  \/ Tick

SpecStorage == InitStorage /\ [][NextStorage]_vars

(***************************************************************************)
(* The request to the inference API (diagnostic/phi3_integration.py):      *)
(* Phi3Integration._make_api_request posts the prompt to one model after   *)
(* the other.  Each action is one pass of its loop, with what the server   *)
(* answered drawn from ApiAnswers.                                         *)
(***************************************************************************)
\* self.model followed by self.fallback_models
models_to_try ==
  <<"microsoft/Phi-3.5-mini-instruct", "microsoft/Phi-3-mini-4k-instruct",
    "microsoft/Phi-3-mini-128k-instruct">>

\* what requests.post, raise_for_status and response.json make of an answer:
\* a RequestException by its message, an unparsable body, or the parsed JSON
RequestExceptions == {"http_401", "http_403", "http_404", "connection_error"}

ParsedAnswers ==
  {"list_of_object_with_text", "object_with_text", "list_of_object_with_empty_text",
   "list_of_object_without_text", "object_without_text", "empty_list",
   "list_of_object_with_number", "list_of_string"}

ApiAnswers == RequestExceptions \cup {"invalid_json"} \cup ParsedAnswers

\* the text a model generates
generated_text_of(model) == Str(model)

\* an exception no except clause of the loop catches leaves the function
ApiRaised(error) == [kind |-> "raised", error |-> error]

\* the messages of a call, by the keywords the user message holds
UserMessages == [anxiety : BOOLEAN, depression : BOOLEAN]

\* Phi3Integration._generate_demo_analysis with _get_contextual_demo_response
generate_demo_analysis(msgs) ==
  IF msgs.anxiety THEN Str("demo: indicators of anxiety-related symptoms")
  ELSE IF msgs.depression THEN Str("demo: significant depressive symptoms")
  ELSE Str("demo: several areas of mental health concern")

\* the body of the loop for one answer: what it returns or raises, and None
\* when it goes on (continue, break, or the end of the body)
try_model(model, answer) ==
  CASE answer \in {"list_of_object_with_text", "object_with_text"} ->
         Returned(generated_text_of(model))
    [] answer = "list_of_object_with_number" -> Returned(Num(5))
    [] answer = "list_of_string" -> ApiRaised("AttributeError")
    [] OTHER -> None

\* the loop is left by break after a 401 and after the last model
loop_left(attempts) ==
  \/ Len(attempts) = Len(models_to_try)
  \/ attempts[Len(attempts)].answer = "http_401"

Phi3Quiet ==
  /\ EngineIdle
  /\ SecurityIdle
  /\ SessionIdle
  /\ StorageIdle

InitPhi3 ==
  /\ Phi3Quiet
  /\ messages \in UserMessages
  /\ tried = <<>>
  /\ api_response = None

\* one pass of the loop; the pass that leaves the loop without a return
\* goes on to the return of the demo analysis
TryModel ==
  /\ api_response = None
  /\ \E answer \in ApiAnswers :
       LET model == models_to_try[Len(tried) + 1]
           attempts == Append(tried, [model |-> model, answer |-> answer])
           outcome == try_model(model, answer)
       IN /\ tried' = attempts
          /\ api_response' = IF outcome = None /\ loop_left(attempts)
                             THEN Returned(generate_demo_analysis(messages))
                             ELSE outcome
  /\ UNCHANGED messages
  /\ UNCHANGED <<engine_vars, security_vars, session_vars, storage_vars>>

\* the next call of _make_api_request
CallAgain ==
  /\ api_response # None
  /\ messages' \in UserMessages
  /\ tried' = <<>>
  /\ api_response' = None
  /\ UNCHANGED <<engine_vars, security_vars, session_vars, storage_vars>>

NextPhi3 == TryModel \/ CallAgain

SpecPhi3 == InitPhi3 /\ [][NextPhi3]_vars

(***************************************************************************)
(* Properties of the scoring engine (specification Spec).                  *)
(***************************************************************************)
Analysed == analysis_result # None

max_score == scoring_algorithms[assessment_type].max_score

\* the scored questions of the instrument that the response set answers
Answered == ScoredQuestions(assessment_type) \cap DOMAIN responses

\* items whose scored value falls when the answer rises: the PSS-10
\* reverse-scored items and the two PSQI hour questions
InverseItems(type) == scoring_algorithms[type].reverse_score \cup HourQuestions

InScale(type, q, n) == IF q \in HourQuestions THEN n \in 0..24 ELSE n \in 0..ScaleMax(type)

AllInScale ==
  \A q \in Answered :
    responses[q].kind = "num" /\ InScale(assessment_type, q, responses[q].n)

TotalOf(resp) == calculate_scores(assessment_type, resp).total_score

\* C1: for every instrument and every response set, also with answers that
\* are negative or above the scale, 0 <= total_score <= max_score.
C1_TotalWithinRange ==
  Analysed => /\ 0 <= analysis_result.total_score
              /\ analysis_result.total_score <= analysis_result.max_possible_score

\* C2 as claimed: every integer score 0..max_score of the instrument lies in
\* exactly one cutoff interval, so the percentage fallback is never used.
C2_EveryScoreInOneInterval ==
  Analysed =>
    \A sc \in 0..max_score :
      Cardinality(MatchingCutoffs(scoring_algorithms[assessment_type].cutoffs, sc)) = 1

\* the lowest score the cutoff table of the instrument covers
LowestCutoff(type) == IF type = "General Mental Health Screening" THEN 10 ELSE 0

\* C2 as amended: every integer score from the lowest cutoff bound (0, and 10
\* for K10) to max_score lies in exactly one interval and is classified as
\* that interval's band; the K10 scores 0..9 lie in no interval and take the
\* percentage fallback.
C2_CutoffsPartitionCoveredRange ==
  Analysed =>
    LET cutoffs == scoring_algorithms[assessment_type].cutoffs
    IN  /\ \A sc \in LowestCutoff(assessment_type)..max_score :
             /\ Cardinality(MatchingCutoffs(cutoffs, sc)) = 1
             /\ \A i \in MatchingCutoffs(cutoffs, sc) :
                  determine_severity(assessment_type, sc) = severity_mapping[cutoffs[i].name]
        /\ \A sc \in 0..(LowestCutoff(assessment_type) - 1) :
             /\ MatchingCutoffs(cutoffs, sc) = {}
             /\ determine_severity(assessment_type, sc) = percentage_severity(sc, max_score)
        /\ analysis_result.total_score \in LowestCutoff(assessment_type)..max_score =>
             \E i \in DOMAIN cutoffs :
               /\ cutoffs[i].lo <= analysis_result.total_score
               /\ analysis_result.total_score <= cutoffs[i].hi
               /\ analysis_result.severity_level = severity_mapping[cutoffs[i].name]

C2_Witness ==
  /\ Analysed
  /\ assessment_type = "General Mental Health Screening"
  /\ analysis_result.total_score = 30
  /\ analysis_result.severity_level = "severe"

\* the response set with the numeric answer to q raised by one step
Raised(q) == Put(responses, q, Num(responses[q].n + 1))

\* the answered questions whose answer can rise one step within the scale
Raisable ==
  {q \in Answered : /\ responses[q].kind = "num"
                    /\ InScale(assessment_type, q, responses[q].n)
                    /\ InScale(assessment_type, q, responses[q].n + 1)}

\* C5 as claimed: raising any one answer by one step within its scale never
\* lowers the total score.
C5_RaisingNeverLowersTotal ==
  Analysed => \A q \in Raisable : TotalOf(Raised(q)) >= analysis_result.total_score

\* a PSQI component sums raw answers and scores a negative sum 1, above the
\* 0 of an empty sum, so its bands are ordered only over in-scale answers
BandsOrdered == assessment_type = "Sleep Disorders Screening" => AllInScale

\* C5 as amended: that holds for every item except the PSS-10 reverse-scored
\* items and the PSQI hours_sleep and time_in_bed (for PSQI when every
\* answer of the response set is in scale); raising a reverse-scored PSS-10
\* item never raises the total.
C5_RaisingDirectItemNeverLowersTotal ==
  (Analysed /\ BandsOrdered) =>
    /\ \A q \in Raisable \ InverseItems(assessment_type) :
         TotalOf(Raised(q)) >= analysis_result.total_score
    /\ \A q \in Raisable \cap scoring_algorithms[assessment_type].reverse_score :
         TotalOf(Raised(q)) <= analysis_result.total_score

C5_Witness ==
  /\ Analysed
  /\ assessment_type = "Stress & Trauma Assessment"
  /\ \E q \in Raisable \ InverseItems(assessment_type) :
       TotalOf(Raised(q)) > analysis_result.total_score
  /\ \E q \in Raisable \cap scoring_algorithms[assessment_type].reverse_score :
       TotalOf(Raised(q)) < analysis_result.total_score

\* the risk level analyze_assessment computes for a response set
RiskOf(resp) == assess_risk_level(assessment_type, resp, TotalOf(resp))

\* the response sets that differ from the current one in one numeric answer,
\* which is higher
HigherAnswers(q) ==
  {v \in NumericAnswers(q) : responses[q].kind = "num" /\ v.n > responses[q].n}

\* C6 as claimed: raising one single answer never yields a strictly lower
\* risk level.
C6_RaisingNeverLowersRisk ==
  Analysed =>
    \A q \in DOMAIN responses : \A v \in HigherAnswers(q) :
      RiskRank(RiskOf(Put(responses, q, v))) >= RiskRank(analysis_result.risk_level)

\* C6 as amended: that holds for every answer except those to the PSS-10
\* reverse-scored items and to the PSQI hours_sleep and time_in_bed (for
\* PSQI when every answer of the response set is in scale).
C6_RaisingDirectItemNeverLowersRisk ==
  (Analysed /\ BandsOrdered) =>
    \A q \in (DOMAIN responses) \ InverseItems(assessment_type) : \A v \in HigherAnswers(q) :
      RiskRank(RiskOf(Put(responses, q, v))) >= RiskRank(analysis_result.risk_level)

C6_Witness ==
  /\ Analysed
  /\ analysis_result.risk_level = "moderate"
  /\ \E q \in (DOMAIN responses) \ InverseItems(assessment_type) : \E v \in HigherAnswers(q) :
       RiskOf(Put(responses, q, v)) = "high"

\* C7: a response set that triggers no red flag gets the lowest risk level
\* (the aggregate risk level is the maximum severity among triggered flags).
C7_NoFlagLowestRisk ==
  (Analysed /\ analysis_result.red_flags = <<>>) => analysis_result.risk_level = "low"

\* the sets of question ids whose answers are removed: every one and every
\* two answered questions, and a half of the question list
HalfSets(type) ==
  LET qs == scoring_algorithms[type].questions
      h == Len(qs) \div 2
  IN  IF qs # <<>>
      THEN {{qs[i] : i \in 1..h}, {qs[i] : i \in (h + 1)..Len(qs)}}
      ELSE {Range(PSQIComponents["sleep_disturbances"].questions)}

RemovalSets == {{a, b} : a \in Answered, b \in Answered} \cup HalfSets(assessment_type)

\* C8 as claimed: with in-scale answers, the total score after removing the
\* answers to any subset of the question ids is within [0, max_score] and at
\* most the total score of the full set.
C8_RemovingNeverRaisesTotal ==
  (Analysed /\ AllInScale) =>
    \A S \in RemovalSets :
      LET t == TotalOf(Without(responses, S))
      IN  0 <= t /\ t <= max_score /\ t <= analysis_result.total_score

\* C8 as amended: the reduced total is within [0, max_score]; it is at most
\* the full total when no removed id is a PSS-10 reverse-scored item or the
\* PSQI hours_sleep or time_in_bed.
C8_RemovingDirectItemsNeverRaisesTotal ==
  (Analysed /\ AllInScale) =>
    \A S \in RemovalSets :
      LET t == TotalOf(Without(responses, S))
      IN  /\ 0 <= t /\ t <= max_score
          /\ S \cap InverseItems(assessment_type) = {} => t <= analysis_result.total_score

C8_Witness ==
  /\ Analysed /\ AllInScale
  /\ \E S \in RemovalSets :
       /\ Cardinality(S) >= 2
       /\ S \subseteq Answered
       /\ S \cap InverseItems(assessment_type) = {}
       /\ TotalOf(Without(responses, S)) < analysis_result.total_score

ScoresOf(resp) == calculate_scores(assessment_type, resp)

\* C9 as claimed: a question id absent from the response set is scored as if
\* answered 0, in the total and in every domain score.
C9_AbsentScoredAsZero ==
  Analysed =>
    \A q \in ScoredQuestions(assessment_type) \ DOMAIN responses :
      LET z == ScoresOf(Put(responses, q, Num(0)))
      IN  /\ z.total_score = analysis_result.total_score
          /\ z.domain_scores = analysis_result.domain_scores

\* C9 as amended: that holds for every question id except the PSQI
\* hours_sleep and time_in_bed, which are scored when absent as if answered
\* 7 and 8.
C9_AbsentScoredAsDefault ==
  Analysed =>
    \A q \in ScoredQuestions(assessment_type) \ DOMAIN responses :
      LET d == IF q = "hours_sleep" THEN 7 ELSE IF q = "time_in_bed" THEN 8 ELSE 0
          z == ScoresOf(Put(responses, q, Num(d)))
      IN  /\ z.total_score = analysis_result.total_score
          /\ z.domain_scores = analysis_result.domain_scores

C9_Witness ==
  /\ Analysed
  /\ Answered # {}
  /\ "hours_sleep" \in ScoredQuestions(assessment_type) \ DOMAIN responses
  /\ analysis_result.total_score > 0

\* C10: a PSS-10 reverse-scored item answered x in 0..4 contributes 4 - x,
\* every other item contributes x, and the all-2 response set scores 20.
C10_ReverseScoringSymmetry ==
  (Analysed /\ assessment_type = "Stress & Trauma Assessment") =>
    LET cfg == scoring_algorithms[assessment_type]
    IN  /\ \A q \in Range(cfg.questions) : \A x \in 0..4 :
             LET resp == Put(responses, q, Num(x))
                 rest == TotalOf(Without(responses, {q}))
                        - pss10_item_score(Without(responses, {q}), q, cfg.reverse_score)
             IN  /\ q \in cfg.reverse_score =>
                      pss10_item_score(resp, q, cfg.reverse_score) + x = 4
                 /\ q \notin cfg.reverse_score =>
                      pss10_item_score(resp, q, cfg.reverse_score) = x
                 /\ AllInScale =>
                      TotalOf(resp) = rest + pss10_item_score(resp, q, cfg.reverse_score)
        /\ responses = [q \in Range(cfg.questions) |-> Num(2)] =>
             analysis_result.total_score = 20

C10_Witness ==
  /\ Analysed
  /\ assessment_type = "Stress & Trauma Assessment"
  /\ responses = [q \in Range(scoring_algorithms[assessment_type].questions) |-> Num(2)]
  /\ analysis_result.total_score = 20

Clamp(n, lo, hi) == IF n < lo THEN lo ELSE IF n > hi THEN hi ELSE n

\* C11: a numeric answer outside the scale of its question is clamped by the
\* normaliser, so every normalised item value lies in [scale_min, scale_max].
C11_NumericAnswerClamped ==
  Analysed =>
    \A q \in Answered \ HourQuestions :
      responses[q].kind = "num" =>
        extract_response_value(responses[q])
          = Clamp(responses[q].n, 0, ScaleMax(assessment_type))

\* the instruments scored from a question list and domains
DomainInstruments == Instruments \ {"Sleep Disorders Screening"}

\* the scored value of one item: reversed for the PSS-10 reverse-scored
\* items, moved to the 1-5 scale for K10, the normalised answer otherwise
ScoredValue(type, resp, q) ==
  LET v == extract_response_value(Get(resp, q, Num(0)))
  IN  IF q \in scoring_algorithms[type].reverse_score THEN 4 - v
      ELSE IF type = "General Mental Health Screening" THEN v + 1
      ELSE v

RECURSIVE SumScored(_, _, _)
SumScored(type, resp, qs) ==
  IF qs = <<>> THEN 0
  ELSE ScoredValue(type, resp, Head(qs)) + SumScored(type, resp, Tail(qs))

\* C12: for PHQ-9, GAD-7, PSS-10 and K10 the domains partition the question
\* list, each domain score is the uncapped sum of its items' scored values,
\* and total_score = min(sum of the domain scores, max_score).
C12_TotalIsCappedSumOfDomains ==
  (Analysed /\ assessment_type \in DomainInstruments) =>
    LET cfg == scoring_algorithms[assessment_type]
        scores == analysis_result.domain_scores
    IN  /\ \A q \in Range(cfg.questions) :
             Cardinality({d \in DOMAIN cfg.domains : q \in Range(cfg.domains[d])}) = 1
        /\ \A d \in DOMAIN cfg.domains :
             /\ Range(cfg.domains[d]) \subseteq Range(cfg.questions)
             /\ Cardinality(Range(cfg.domains[d])) = Len(cfg.domains[d])
        /\ Cardinality(Range(cfg.questions)) = Len(cfg.questions)
        /\ DOMAIN scores = DOMAIN cfg.domains
        /\ \A d \in DOMAIN cfg.domains :
             scores[d] = SumScored(assessment_type, responses, cfg.domains[d])
        /\ analysis_result.total_score
             = Min(SumDomains(scores, DOMAIN scores), cfg.max_score)

C12_Witness ==
  /\ Analysed
  /\ assessment_type = "Anxiety Disorders Screening"
  /\ SumDomains(analysis_result.domain_scores, DOMAIN analysis_result.domain_scores) > 21
  /\ analysis_result.total_score = 21
  /\ \E d \in DOMAIN analysis_result.domain_scores :
       analysis_result.domain_scores[d]
         > 3 * Len(scoring_algorithms[assessment_type].domains[d])

\* all nine PHQ-9 questions are answered with a number in 0..3
NineInScale ==
  \A q \in Range(PHQ9Config.questions) :
    q \in DOMAIN responses /\ responses[q].kind = "num" /\ responses[q].n \in 0..3

RECURSIVE PlainSum(_, _)
\* the plain sum of the numeric answers to the questions qs
PlainSum(resp, qs) == IF qs = <<>> THEN 0 ELSE resp[Head(qs)].n + PlainSum(resp, Tail(qs))

\* C13: for PHQ-9 with all nine answers in 0..3 the total score is the plain
\* sum of the answers and the severity is the band of the cutoff table that
\* contains the sum; all 0 gives 0 and minimal, all 3 gives 27 and severe.
C13_PHQ9PlainSumAndBand ==
  (Analysed /\ assessment_type = "Depression Screening" /\ NineInScale) =>
    LET sum == PlainSum(responses, PHQ9Config.questions)
    IN  /\ analysis_result.total_score = sum
        /\ \E i \in DOMAIN PHQ9Config.cutoffs :
             /\ PHQ9Config.cutoffs[i].lo <= sum
             /\ sum <= PHQ9Config.cutoffs[i].hi
             /\ analysis_result.severity_level = PHQ9Config.cutoffs[i].name
        /\ (\A q \in Range(PHQ9Config.questions) : responses[q].n = 0) =>
             analysis_result.total_score = 0 /\ analysis_result.severity_level = "minimal"
        /\ (\A q \in Range(PHQ9Config.questions) : responses[q].n = 3) =>
             analysis_result.total_score = 27 /\ analysis_result.severity_level = "severe"

C13_Witness ==
  /\ Analysed
  /\ assessment_type = "Depression Screening"
  /\ NineInScale
  /\ \A q \in Range(PHQ9Config.questions) : responses[q].n = 3
  /\ analysis_result.total_score = 27
  /\ analysis_result.severity_level = "severe"

\* the total scores _assess_risk_level is tried with: from below 0 to above
\* the maximum of the instrument
TriedTotals == (0 - MaxAnswer)..(max_score + MaxAnswer)

\* C16: for fixed responses, _assess_risk_level is monotone in the total
\* score: for all totals t1 <= t2 the level for t2 is at least the level for
\* t1 in the order low < moderate < high < critical.
\* Stated for every two consecutive totals, which gives it for all t1 <= t2
\* by transitivity.
C16_RiskMonotoneInTotal ==
  Analysed =>
    \A t \in TriedTotals :
      (t + 1) \in TriedTotals =>
        RiskRank(assess_risk_level(assessment_type, responses, t))
          <= RiskRank(assess_risk_level(assessment_type, responses, t + 1))

C16_Witness ==
  /\ Analysed
  /\ analysis_result.risk_level = "moderate"
  /\ assess_risk_level(assessment_type, responses, 10) = "low"
  /\ assess_risk_level(assessment_type, responses, 21) = "high"

(***************************************************************************)
(* Properties of calls of the engine (specification SpecCalls).            *)
(***************************************************************************)
\* C14: analyze_assessment called with an assessment type that is not
\* configured aborts with an instrument-not-found error and returns no
\* classification result.
C14_UnknownInstrumentAborts ==
  (Analysed /\ assessment_type \notin Instruments) => analysis_result.kind = "raised"

\* the questions answered with a string
StringAnswered == {q \in DOMAIN responses : responses[q].kind = "str"}

\* the capitalisations of three words of the synonym table, and their values
Capitalisations ==
  [w \in {"never", "sometimes", "often"} |->
     CASE w = "never" -> {"never", "Never", "NEVER"}
       [] w = "sometimes" -> {"sometimes", "Sometimes", "SOMETIMES"}
       [] w = "often" -> {"often", "Often", "OFTEN"}]

SynonymValue == [w \in {"never", "sometimes", "often"} |->
                   CASE w = "never" -> 0 [] w = "sometimes" -> 2 [] w = "often" -> 3]

\* the string is a word of the synonym table in some capitalisation
InSynonymTable(x) == \E w \in DOMAIN Capitalisations : x \in Capitalisations[w]

C18_ListCountsSelections ==
  (Analysed /\ assessment_type \in Instruments) =>
    \A q \in Answered \ HourQuestions :
      responses[q].kind = "list" =>
        extract_response_value(responses[q]) = Min(responses[q].n, ScaleMax(assessment_type))

\* the total scores _determine_severity is tried with
SeverityTotals ==
  ((0 - MaxAnswer)..(algorithm_config_of(assessment_type).max_score + MaxAnswer))
  \cup {analysis_result.total_score}

\* C19: a total score in no cutoff interval is classified by
\* p = 100 * total_score / max_score (severe if p >= 80, moderate if
\* p >= 60, mild if p >= 30, minimal otherwise); a total score in some
\* interval gets the band of the first such interval.
C19_PercentageFallback ==
  Analysed =>
    LET cfg == algorithm_config_of(assessment_type)
    IN  /\ \A sc \in SeverityTotals :
             LET m == {i \in DOMAIN cfg.cutoffs :
                         cfg.cutoffs[i].lo <= sc /\ sc <= cfg.cutoffs[i].hi}
             IN  IF m = {}
                 THEN determine_severity(assessment_type, sc)
                        = (IF 100 * sc >= 80 * cfg.max_score THEN "severe"
                           ELSE IF 100 * sc >= 60 * cfg.max_score THEN "moderate"
                           ELSE IF 100 * sc >= 30 * cfg.max_score THEN "mild"
                           ELSE "minimal")
                 ELSE \E i \in m :
                        /\ \A j \in m : i <= j
                        /\ determine_severity(assessment_type, sc)
                             = severity_mapping[cfg.cutoffs[i].name]
        /\ analysis_result.severity_level
             = determine_severity(assessment_type, analysis_result.total_score)

C19_Witness ==
  /\ Analysed
  /\ assessment_type \in UnknownTypes
  /\ analysis_result.severity_level = "minimal"
  /\ determine_severity(assessment_type, 30) = "mild"
  /\ determine_severity(assessment_type, 60) = "moderate"
  /\ determine_severity(assessment_type, 80) = "severe"

\* C20: two calls of analyze_assessment with the same assessment data, at any
\* two times, yield records that are equal in every field, the timestamp
\* included.
C20_RepeatedCallsEqual ==
  (Analysed /\ earlier_result # None) => analysis_result = earlier_result

(***************************************************************************)
(* Properties of the crisis check (specification SpecCrisis).              *)
(***************************************************************************)
\* dep_005 is answered 1 and every other answer of the response set is 0
OnlySuicidalityItemOne ==
  /\ "dep_005" \in DOMAIN responses
  /\ responses["dep_005"] = Num(1)
  /\ \A q \in (DOMAIN responses) \ {"dep_005"} : responses[q] = Num(0)

\* C3: with dep_005 = 1 and every other answer 0, the crisis_flags of
\* analyze_responses are non-empty.
C3_SuicidalityItemRaisesCrisisFlag ==
  (tools_result # None /\ OnlySuicidalityItemOne) =>
    /\ tools_result.kind = "tools"
    /\ tools_result.crisis_flags # <<>>

\* C4: whenever the answer to the crisis-indicator item dep_005 is 1 or more,
\* the crisis assessment has immediate_action_required = true.
C4_CrisisIndicatorForcesImmediateAction ==
  (crisis_assessment # None /\ Raw(responses, "dep_005") >= 1) =>
    /\ crisis_assessment.kind = "crisis"
    /\ crisis_assessment.immediate_action_required

\* C15: for every response set whose values are numbers, strings or lists,
\* AssessmentTools.analyze_responses completes with a result and raises no
\* error.
C15_AnalysisNeverRaises ==
  tools_result # None => tools_result.kind = "tools"

\* C21: evaluating the risk/crisis rules only computes a result: a call of
\* assess_crisis_level leaves the stored crisis_records, the audit_log and the
\* alert state unchanged and dispatches no alert.
C21_AssessmentOnlyComputes ==
  [][(crisis_assessment = None /\ crisis_assessment' # None) =>
       UNCHANGED <<crisis_records, audit_log, crisis_alerts>>]_vars

(***************************************************************************)
(* Properties of the EncryptionManager (specification SpecSecurity).       *)
(***************************************************************************)
\* C22: encryption round-trips: decrypt_data(encrypt_data(x)) is x, the same
\* value of the same type, for every string and every JSON-serialisable
\* dict x, and decrypt_pii(encrypt_pii(d)) is d for every dict d of string
\* fields.
C22_EncryptionRoundTrips ==
  /\ decrypted # None => decrypted.value = data
  /\ decrypted_pii # None => decrypted_pii.value = data

\* C23: a signature of create_data_integrity_signature(d) verifies against
\* the same data however much the clock advanced between signing and
\* verifying.
C23_SignatureVerifiesLater ==
  verified # None => verified.value

(***************************************************************************)
(* Properties of the application flow (specification SpecApp).             *)
(***************************************************************************)
\* C24: in the application flow the responses passed to analyze_assessment
\* are keyed by the question ids the engine scores, so for every assessment
\* type answering every question at its maximum yields a strictly higher
\* total_score than answering every question at its minimum.
C24_HighestAnswersScoreHigher ==
  ( /\ assessment_results # None
    /\ SubmittedResponses = HighestResponses(assessment_results.assessment_type)
    /\ analysis_result =
         AnalysisOf(assessment_results.assessment_type, SubmittedResponses, now) )
  => analysis_result.total_score >
       AnalysisOf(assessment_results.assessment_type,
                  RenderedResponses(assessment_results.assessment_type), now).total_score

\* C25: the main application is rendered only when consent_given and
\* age_verified are both true, the age verification page only when
\* consent_given is true, and consent_given becomes true only in a step in
\* which record_consent stored the consent and returned True.
C25_PagesGatedByConsentAndAge ==
  /\ [](rendered = "main_application" => (consent_given /\ age_verified))
  /\ [](rendered = "age_verification" => consent_given)
  /\ [][(~consent_given /\ consent_given') =>
          /\ consent_id' # None
          /\ Len(consent_records') = Len(consent_records) + 1]_vars

C25_Witness ==
  /\ rendered = "main_application"
  /\ assessment_results # None
  /\ consent_id # None

\* C26: for an entered age under 18, age_verified becomes true only in a step
\* where the parental-consent checkbox is ticked, the parent name and phone
\* are non-empty and validate_phone(parent_phone) and
\* validate_email(parent_email) are both true; otherwise it stays false.
C26_MinorNeedsValidParentalConsent ==
  [][(~age_verified /\ age_form.age < 18 /\ age_verified') =>
       /\ age_form.consent_checkbox
       /\ age_form.parent_name # ""
       /\ age_form.parent_phone # ""
       /\ validate_phone(age_form.parent_phone)
       /\ validate_email(age_form.parent_email)]_vars

C26_Witness ==
  /\ age_verified
  /\ minor_consent # None

(***************************************************************************)
(* Properties of the storage (specification SpecStorage).                  *)
(***************************************************************************)
\* C27: every operation that inserts a row referencing a user_hash
\* (store_assessment, store_consent, store_crisis_record,
\* store_diagnostic_report) makes sure the user_data row exists before the
\* insert, so the insert succeeds also for a session user without a row.
C27_StoreSucceedsWithoutUserRow ==
  (storage_result # None /\ storage_result.operation \in StoreOperations) =>
    storage_result.kind = "returned"

\* C28: delete_user_data(user_hash, 'complete') completes without error after
\* any sequence of store operations: it removes the user_data row and the
\* diagnostic reports, removes only assessments older than 7 years, and
\* leaves every crisis record and every younger assessment in place.
C28_CompleteDeletionSucceeds ==
  [][(edits' = edits + 1 /\ storage_result'.operation = "delete_user_data") =>
       /\ storage_result'.kind = "returned"
       /\ user_row' = FALSE
       /\ diagnostic_reports' = <<>>
       /\ crisis_records' = crisis_records
       /\ assessments' = YoungerThan(assessments, now - RetentionYears)]_vars

(***************************************************************************)
(* Properties of the API request (specification SpecPhi3).                 *)
(***************************************************************************)
\* the answers from which the loop takes a generated text
TextAnswers == {"list_of_object_with_text", "object_with_text"}

\* the first attempt in the order of the calls that was answered with text
FirstWithText(attempts) ==
  CHOOSE i \in 1..Len(attempts) :
    /\ attempts[i].answer \in TextAnswers
    /\ \A j \in 1..(i - 1) : attempts[j].answer \notin TextAnswers

\* C29: _make_api_request tries the models in the order primary, first
\* fallback, second fallback; it returns the generated text of the first
\* model that answers with non-empty text, tries no model after a 401, and
\* whenever no model produced text it returns the demo analysis, so a call
\* always ends with the return of a non-empty text.
C29_RequestReturnsTextOrDemo ==
  /\ \A i \in 1..Len(tried) : tried[i].model = models_to_try[i]
  /\ \A i \in 1..(Len(tried) - 1) : tried[i].answer # "http_401"
  /\ api_response # None =>
       /\ api_response.kind = "returned"
       /\ api_response.value.kind = "str"
       /\ api_response.value.s # ""
       /\ api_response.value =
            IF \E i \in 1..Len(tried) : tried[i].answer \in TextAnswers
            THEN generated_text_of(tried[FirstWithText(tried)].model)
            ELSE generate_demo_analysis(messages)

(***************************************************************************)
(* K10 on answers within the scale (specification Spec).                   *)
(***************************************************************************)
\* the answer the K10 scoring reads for question q: 0 when it is missing
K10Answer(resp, q) == IF q \in DOMAIN resp THEN resp[q].n ELSE 0

RECURSIVE K10AnswerSum(_, _)
K10AnswerSum(resp, qs) ==
  IF qs = <<>> THEN 0 ELSE K10Answer(resp, Head(qs)) + K10AnswerSum(resp, Tail(qs))

\* a K10 response set whose given answers are all numbers in 0..4
K10InScale ==
  /\ assessment_type = "General Mental Health Screening"
  /\ AllInScale

\* C30: for General Mental Health Screening (K10) with every answer in 0..4
\* and missing answers counted as 0, each of the ten items contributes
\* answer + 1, so total_score lies in 10..50 and in exactly one K10 cutoff
\* interval (likely_well 10-15, likely_mild 16-21, likely_moderate 22-29,
\* likely_severe 30-50), whose band is the severity: the percentage
\* fallback is not reached.
C30_K10TotalInOneInterval ==
  (Analysed /\ K10InScale) =>
    LET total == analysis_result.total_score
        m == {i \in DOMAIN K10Config.cutoffs :
                K10Config.cutoffs[i].lo <= total /\ total <= K10Config.cutoffs[i].hi}
    IN  /\ Len(K10Config.questions) = 10
        /\ \A q \in Range(K10Config.questions) :
             k10_item_score(responses, q) = K10Answer(responses, q) + 1
        /\ total = K10AnswerSum(responses, K10Config.questions) + 10
        /\ total \in 10..50
        /\ Cardinality(m) = 1
        /\ \A i \in m :
             /\ [name |-> K10Config.cutoffs[i].name, lo |-> K10Config.cutoffs[i].lo,
                 hi |-> K10Config.cutoffs[i].hi]
                  \in {[name |-> "likely_well", lo |-> 10, hi |-> 15],
                       [name |-> "likely_mild", lo |-> 16, hi |-> 21],
                       [name |-> "likely_moderate", lo |-> 22, hi |-> 29],
                       [name |-> "likely_severe", lo |-> 30, hi |-> 50]}
             /\ analysis_result.severity_level = severity_mapping[K10Config.cutoffs[i].name]

\* an analysed K10 response set with answers changed within the scale, some
\* question unanswered and a total above the minimum
C30_Witness ==
  /\ Analysed
  /\ K10InScale
  /\ edits > 0
  /\ Answered # {}
  /\ Range(K10Config.questions) \ DOMAIN responses # {}
  /\ analysis_result.total_score > 10
  /\ analysis_result.severity_level = "minimal"

====
